---- MODULE Spec2Model ----
(* Workflow engine: graph store, run store, the executor's traversal loop.   *)
(* Graph definitions, run records and the executor's locals are modelled as  *)
(* the code holds them; values are tagged so that Python's mixed-type        *)
(* comparisons (int against str, anything against None) can be told apart.   *)
EXTENDS Integers, Sequences, FiniteSets, TLC

VARIABLES graphs, runs, ex, resp, clock, heap

vars == <<graphs, runs, ex, resp, clock, heap>>

(* ------------------------------------------------------------------ bounds *)

\* largest integer a state value takes (handlers saturate at it)
MaxVal == 3
\* longest trace a run is followed for
MaxSteps == 5
\* largest max_iterations of a loop policy in the inputs
MaxIter == 2
\* longest edge list of a generated definition
MaxEdges == 3
\* longest chain of nodes of a generated linear definition
MaxChain == 3
\* items the caller itself appends to a list it passed in initial_state
MaxCallerAppends == 1
\* node executions of one run of the code-review workflow: three nodes once
\* and the looping node max_iterations + 1 times
ReviewSteps == 9

(* ------------------------------------------------------------------ values *)

IntV(n) == <<"int", n>>
StrV(i) == <<"str", i>>
NoneV == <<"none", 0>>

IsInt(v) == v[1] = "int"
IsStr(v) == v[1] = "str"

\* a list a handler returns, read nowhere but for its length
ListV(n) == <<"list", n>>
IsList(v) == v[1] = "list"

\* a nested list is an object: the state holds a reference to it, and a
\* shallow copy of the state holds the same reference. The heap maps each
\* list object to the number of its items.
RefV(o) == <<"ref", o>>
IsRef(v) == v[1] = "ref"
ObjIds == {"o1", "o2"}

\* a Python dict: a function whose domain is the set of its keys
EmptyDict == [k \in {} |-> <<"none", 0>>]
DictGet(d, k) == IF k \in DOMAIN d THEN d[k] ELSE NoneV

\* Optional[T]: <<>> is None, <<v>> is a value
None == <<>>
Some(v) == <<v>>

(* -------------------------------------------------------------- conditions *)

ValidOps == {"eq", "ne", "gt", "lt", "gte", "lte"}

\* the comparison raises TypeError: ordering across types or on None
RaisesTypeError(op, a, b) ==
    /\ op \in {"gt", "lt", "gte", "lte"}
    /\ ~ ((IsInt(a) /\ IsInt(b)) \/ (IsStr(a) /\ IsStr(b)))

ApplyOp(op, a, b) ==
    CASE op = "eq"  -> a = b
      [] op = "ne"  -> a # b
      [] op = "gt"  -> a[2] > b[2]
      [] op = "lt"  -> a[2] < b[2]
      [] op = "gte" -> a[2] >= b[2]
      [] op = "lte" -> a[2] <= b[2]

\* an evaluator that reads state[field] and answers False on the KeyError
_evaluate_condition_key_error(condition, state) ==
    IF condition.field \notin DOMAIN state THEN FALSE
    ELSE LET field_value == state[condition.field]
         IN  IF condition.operator \notin ValidOps THEN FALSE
             ELSE IF RaisesTypeError(condition.operator, field_value, condition.value)
                  THEN FALSE
                  ELSE ApplyOp(condition.operator, field_value, condition.value)

\* an evaluator whose except clause answers True
_evaluate_condition_fail_open(condition, state) ==
    LET field_value == DictGet(state, condition.field)
    IN  IF condition.operator \notin ValidOps THEN FALSE
        ELSE IF RaisesTypeError(condition.operator, field_value, condition.value)
             THEN TRUE
             ELSE ApplyOp(condition.operator, field_value, condition.value)

_evaluate_condition(condition, state) ==
    LET field_value == DictGet(state, condition.field)
    IN  IF condition.operator \notin ValidOps THEN FALSE
        ELSE IF RaisesTypeError(condition.operator, field_value, condition.value)
             THEN FALSE
             ELSE ApplyOp(condition.operator, field_value, condition.value)

\* the for-loop of _get_next_node from edge i on; None when it runs off the end
RECURSIVE ScanEdges(_, _, _, _)
ScanEdges(edges, i, current, current_state) ==
    IF i > Len(edges) THEN None
    ELSE IF edges[i].source # current
         THEN ScanEdges(edges, i + 1, current, current_state)
    ELSE IF edges[i].condition # None
            /\ ~ _evaluate_condition(edges[i].condition[1], current_state)
         THEN ScanEdges(edges, i + 1, current, current_state)
    ELSE Some(edges[i].target)

\* a scan that keeps the last matching edge instead of returning at the first
RECURSIVE ScanEdgesLast(_, _, _, _, _)
ScanEdgesLast(edges, i, current, current_state, found) ==
    IF i > Len(edges) THEN found
    ELSE IF edges[i].source # current
         THEN ScanEdgesLast(edges, i + 1, current, current_state, found)
    ELSE IF edges[i].condition # None
            /\ ~ _evaluate_condition(edges[i].condition[1], current_state)
         THEN ScanEdgesLast(edges, i + 1, current, current_state, found)
    ELSE ScanEdgesLast(edges, i + 1, current, current_state, Some(edges[i].target))

_get_next_node_last(current, current_state, graph) ==
    ScanEdgesLast(graph.edges, 1, current, current_state, None)

\* a scan without the source test: the first edge whose condition holds
RECURSIVE ScanEdgesAnySource(_, _, _)
ScanEdgesAnySource(edges, i, current_state) ==
    IF i > Len(edges) THEN None
    ELSE IF edges[i].condition # None
            /\ ~ _evaluate_condition(edges[i].condition[1], current_state)
         THEN ScanEdgesAnySource(edges, i + 1, current_state)
    ELSE Some(edges[i].target)

_get_next_node_any_source(current, current_state, graph) ==
    ScanEdgesAnySource(graph.edges, 1, current_state)

\* a scan that gives up at the first edge of the node whose condition fails
RECURSIVE ScanEdgesFirstOnly(_, _, _, _)
ScanEdgesFirstOnly(edges, i, current, current_state) ==
    IF i > Len(edges) THEN None
    ELSE IF edges[i].source # current
         THEN ScanEdgesFirstOnly(edges, i + 1, current, current_state)
    ELSE IF edges[i].condition # None
            /\ ~ _evaluate_condition(edges[i].condition[1], current_state)
         THEN None
    ELSE Some(edges[i].target)

_get_next_node_first_only(current, current_state, graph) ==
    ScanEdgesFirstOnly(graph.edges, 1, current, current_state)

_get_next_node(current, current_state, graph) ==
    ScanEdges(graph.edges, 1, current, current_state)

(* -------------------------------------------------------- graph validation *)

\* GraphConfig.validate_unique_node_names: len(names) != len(set(names))
validate_unique_node_names(nodes) ==
    Len(nodes) = Cardinality({nodes[i].name : i \in DOMAIN nodes})

ConditionsOf(config) ==
    {config.edges[i].condition[1] :
        i \in {j \in DOMAIN config.edges : config.edges[j].condition # None}}
    \cup {config.loops[n].condition : n \in DOMAIN config.loops}

\* what constructing the pydantic GraphConfig raises, as a list of messages
ModelErrors(config) ==
    (IF Len(config.nodes) < 1 THEN <<"nodes: too short">> ELSE <<>>)
    \o (IF ~ validate_unique_node_names(config.nodes)
        THEN <<"Node names must be unique">> ELSE <<>>)
    \o (IF \E c \in ConditionsOf(config) : c.operator \notin ValidOps
        THEN <<"Operator must be one of">> ELSE <<>>)
    \o (IF \E n \in DOMAIN config.loops : config.loops[n].max_iterations < 1
        THEN <<"max_iterations: ge 1">> ELSE <<>>)

RECURSIVE EdgeErrors(_, _, _)
EdgeErrors(edges, i, node_names) ==
    IF i > Len(edges) THEN <<>>
    ELSE (IF edges[i].source \notin node_names
          THEN <<[kind |-> "Edge source", name |-> edges[i].source]>> ELSE <<>>)
      \o (IF edges[i].target \notin node_names
          THEN <<[kind |-> "Edge target", name |-> edges[i].target]>> ELSE <<>>)
      \o EdgeErrors(edges, i + 1, node_names)

\* dict keys are iterated in insertion order; the model's loop keys are
\* visited in the order of LoopKeyOrder
LoopKeyOrder == <<"A", "B", "C", "Z">>

RECURSIVE LoopErrors(_, _, _)
LoopErrors(loops, i, node_names) ==
    IF i > Len(LoopKeyOrder) THEN <<>>
    ELSE (IF LoopKeyOrder[i] \in DOMAIN loops /\ LoopKeyOrder[i] \notin node_names
          THEN <<[kind |-> "Loop node", name |-> LoopKeyOrder[i]]>> ELSE <<>>)
      \o LoopErrors(loops, i + 1, node_names)

\* a validator that checks the entry node and the edge sources only
_validate_graph_sources_only(config) ==
    LET node_names == {config.nodes[i].name : i \in DOMAIN config.nodes}
    IN  (IF config.entry_node \notin node_names
         THEN <<[kind |-> "Entry node", name |-> config.entry_node]>> ELSE <<>>)
        \o SelectSeq(EdgeErrors(config.edges, 1, node_names),
                     LAMBDA e : e.kind = "Edge source")

\* the errors list of GraphManager._validate_graph; empty when it returns
_validate_graph(config) ==
    LET node_names == {config.nodes[i].name : i \in DOMAIN config.nodes}
    IN  (IF config.entry_node \notin node_names
         THEN <<[kind |-> "Entry node", name |-> config.entry_node]>> ELSE <<>>)
        \o EdgeErrors(config.edges, 1, node_names)
        \o LoopErrors(config.loops, 1, node_names)

(* ---------------------------------------------------------------- handlers *)

\* what a call of a handler does: return a dict, return a non-dict, or raise
\* appended: the list objects the call appended an item to before it ended
Returns(d) == [kind |-> "dict", value |-> d, appended |-> {}]
ReturnsNonDict == [kind |-> "other", value |-> EmptyDict, appended |-> {}]
Raises == [kind |-> "raise", value |-> EmptyDict, appended |-> {}]

Min(a, b) == IF a < b THEN a ELSE b

\* lambda s: {"x": s["x"] + 1}; KeyError without x, TypeError on str or None
inc_x(state) ==
    IF "x" \in DOMAIN state /\ IsInt(state["x"])
    THEN Returns([k \in {"x"} |-> IntV(Min(state["x"][2] + 1, MaxVal))])
    ELSE Raises

\* the list objects the state holds under key "items"
ItemsOf(state) ==
    IF "items" \in DOMAIN state /\ IsRef(state["items"])
    THEN {state["items"][2]} ELSE {}

\* lambda s: s["items"].append(1): writes through the reference it was
\* given and returns None; KeyError or AttributeError without a list
push(state) ==
    IF ItemsOf(state) # {}
    THEN [kind |-> "other", value |-> EmptyDict, appended |-> ItemsOf(state)]
    ELSE Raises

\* the same append, returning the key it wrote to
push_ret(state) ==
    IF ItemsOf(state) # {}
    THEN [kind |-> "dict", value |-> [k \in {"items"} |-> state["items"]],
          appended |-> ItemsOf(state)]
    ELSE Raises

\* the same append, followed by a raise
push_boom(state) ==
    [kind |-> "raise", value |-> EmptyDict, appended |-> ItemsOf(state)]

Max(a, b) == IF a > b THEN a ELSE b

\* the source texts submitted under "code": the empty text, a text of 20
\* lines with 10 control statements, 1 def and 2 issues, and one of 100
\* lines with 25 control statements, 3 defs and 4 issues
CodeSamples == {StrV(0), StrV(1), StrV(2)}
DefsIn(code) == CASE code = StrV(0) -> 0 [] code = StrV(1) -> 1 [] code = StrV(2) -> 3
LinesIn(code) == CASE code = StrV(0) -> 0 [] code = StrV(1) -> 20 [] code = StrV(2) -> 100
ControlsIn(code) == CASE code = StrV(0) -> 0 [] code = StrV(1) -> 10 [] code = StrV(2) -> 25
IssuesIn(code) == CASE code = StrV(0) -> 0 [] code = StrV(1) -> 2 [] code = StrV(2) -> 4

\* state.get("code", ""); re.findall, str.split and the in operator raise on
\* a value that is no text
CodeOf(state) == IF "code" \in DOMAIN state THEN state["code"] ELSE StrV(0)

extract_functions(state) ==
    IF CodeOf(state) \notin CodeSamples THEN Raises
    ELSE Returns([k \in {"functions", "function_count"} |->
                    IF k = "functions" THEN ListV(DefsIn(CodeOf(state)))
                    ELSE IntV(DefsIn(CodeOf(state)))])

\* complexity_score = max(0, 100 - (line_count * 0.5 + control_count * 2))
check_complexity(state) ==
    IF CodeOf(state) \notin CodeSamples THEN Raises
    ELSE LET line_count == LinesIn(CodeOf(state))
             control_count == ControlsIn(CodeOf(state))
             penalty == (line_count \div 2) + (control_count * 2)
         IN  Returns([k \in {"line_count", "control_count", "complexity_score"} |->
                        CASE k = "line_count" -> IntV(line_count)
                          [] k = "control_count" -> IntV(control_count)
                          [] k = "complexity_score" -> IntV(Max(0, 100 - penalty))])

detect_issues(state) ==
    IF CodeOf(state) \notin CodeSamples THEN Raises
    ELSE Returns([k \in {"issues", "issue_count"} |->
                    IF k = "issues" THEN ListV(IssuesIn(CodeOf(state)))
                    ELSE IntV(IssuesIn(CodeOf(state)))])

\* quality_score = max(0, complexity_score - len(issues) * 10); the in
\* operator, len and the arithmetic raise on values of other types
suggest_improvements(state) ==
    LET issues == IF "issues" \in DOMAIN state THEN state["issues"] ELSE ListV(0)
        complexity_score == IF "complexity_score" \in DOMAIN state
                            THEN state["complexity_score"] ELSE IntV(0)
        function_count == IF "function_count" \in DOMAIN state
                          THEN state["function_count"] ELSE IntV(0)
    IN  IF ~ (IsList(issues) /\ IsInt(complexity_score) /\ IsInt(function_count))
        THEN Raises
        ELSE Returns([k \in {"suggestions", "quality_score"} |->
                        IF k = "suggestions"
                        THEN ListV(issues[2]
                                   + (IF complexity_score[2] < 50 THEN 1 ELSE 0)
                                   + (IF function_count[2] > 10 THEN 1 ELSE 0))
                        ELSE IntV(Max(0, complexity_score[2] - issues[2] * 10))])

\* register_code_review_tools
ReviewTools ==
    {"extract_functions", "check_complexity", "detect_issues", "suggest_improvements"}

\* the callables registered under each name (ToolRegistry._tools)
Tools == {"inc_x", "set_a1", "set_a2b3", "noop", "boom"}

\* the registered callables that write to the state they are given (the
\* registry takes any callable, and a copied dict keeps its nested objects)
AliasTools == {"push", "push_ret", "push_boom"}

CallHandler(name, state) ==
    CASE name = "inc_x"    -> inc_x(state)
      [] name = "set_a1"   -> Returns([k \in {"a"} |-> IntV(1)])
      [] name = "set_a2b3" -> Returns([k \in {"a", "b"} |->
                                        IF k = "a" THEN IntV(2) ELSE IntV(3)])
      [] name = "noop"     -> ReturnsNonDict
      [] name = "boom"     -> Raises
      [] name = "push"     -> push(state)
      [] name = "push_ret" -> push_ret(state)
      [] name = "push_boom" -> push_boom(state)
      [] name = "extract_functions" -> extract_functions(state)
      [] name = "check_complexity" -> check_complexity(state)
      [] name = "detect_issues" -> detect_issues(state)
      [] name = "suggest_improvements" -> suggest_improvements(state)

\* ToolRegistry.get: raises ToolNotFoundError unless registered
ToolRegistered(name) == name \in Tools \cup AliasTools \cup ReviewTools

(* ----------------------------------------------------------------- storage *)

save_graph(gs, graph_id, config) == (graph_id :> config) @@ gs
has_graph(gs, graph_id) == graph_id \in DOMAIN gs
save_run(rs, run_id, run_data) == (run_id :> run_data) @@ rs
has_run(rs, run_id) == run_id \in DOMAIN rs
load_run(rs, run_id) == rs[run_id]

\* uuid4: an identifier not handed out before
GraphIdSeq == <<"g1", "g2">>
RunIdSeq == <<"r1", "r2">>
\* an identifier derived from nothing but the store's first slot
NewGraphIdFixed(gs) == GraphIdSeq[1]

NewGraphId(gs) == GraphIdSeq[Cardinality(DOMAIN gs) + 1]
NewRunId(rs) == RunIdSeq[Cardinality(DOMAIN rs) + 1]

(* ----------------------------------------------------------- state manager *)

\* dict.update: keys of updates overwrite, the others stay
DictUpdate(d, updates) ==
    [k \in DOMAIN d \cup DOMAIN updates |->
        IF k \in DOMAIN updates THEN updates[k] ELSE d[k]]

initialize(rs, run_id, graph_id, initial_state, now) ==
    save_run(rs, run_id,
        [run_id |-> run_id,
         graph_id |-> graph_id,
         current_state |-> initial_state,
         status |-> "running",
         started_at |-> now,
         completed_at |-> None,
         execution_log |-> <<>>])

\* a get_state that reads the record of the run created last, as if the
\* manager kept one current run
get_state_last(rs, run_id) ==
    LET Index(q) == CHOOSE i \in DOMAIN RunIdSeq : RunIdSeq[i] = q
        last == CHOOSE q \in DOMAIN rs : \A p \in DOMAIN rs : Index(p) <= Index(q)
    IN  load_run(rs, last).current_state

get_state(rs, run_id) == load_run(rs, run_id).current_state

get_run(rs, run_id) == load_run(rs, run_id)

\* an update that replaces the state by the updates (what set_state does)
update_state_replace(rs, run_id, updates) ==
    save_run(rs, run_id,
        [load_run(rs, run_id) EXCEPT !.current_state = updates])

\* an update that reaches every run record, as if the runs shared one state
update_state_shared(rs, run_id, updates) ==
    [r \in DOMAIN rs |->
        [rs[r] EXCEPT !.current_state = DictUpdate(@, updates)]]

update_state(rs, run_id, updates) ==
    save_run(rs, run_id,
        [load_run(rs, run_id) EXCEPT
            !.current_state = DictUpdate(@, updates)])

\* a complete_run that falls back on its default status, "completed"
complete_run_default_status(rs, run_id, status, now) ==
    save_run(rs, run_id,
        [load_run(rs, run_id) EXCEPT
            !.status = "completed", !.completed_at = Some(now)])

\* a complete_run that stamps completed runs only
complete_run_unstamped_failure(rs, run_id, status, now) ==
    save_run(rs, run_id,
        [load_run(rs, run_id) EXCEPT
            !.status = status,
            !.completed_at = IF status = "completed" THEN Some(now) ELSE @])

\* a complete_run that sets the fields on a copy and never saves the record
complete_run_no_save(rs, run_id, status, now) == rs

complete_run(rs, run_id, status, now) ==
    save_run(rs, run_id,
        [load_run(rs, run_id) EXCEPT
            !.status = status, !.completed_at = Some(now)])

(* ---------------------------------------------------------------- executor *)

\* next(n for n in graph.nodes if n.name == node_name)
HasNode(graph, node_name) == \E i \in DOMAIN graph.nodes : graph.nodes[i].name = node_name
FirstNode(graph, node_name) ==
    graph.nodes[CHOOSE i \in DOMAIN graph.nodes :
        /\ graph.nodes[i].name = node_name
        /\ \A j \in 1..(i - 1) : graph.nodes[j].name # node_name]

NoResult == [kind |-> "none", value |-> EmptyDict, appended |-> {}]

\* list.append(1) on each object of appended
Mutate(h, appended) ==
    [o \in DOMAIN h |-> IF o \in appended THEN h[o] + 1 ELSE h[o]]

NoEntry == None

\* an _execute_node without the isinstance test: dict.update of a non-dict
\* raises TypeError outside the try block
_execute_node_no_isinstance(rs, run_id, node_name, graph) ==
    IF ~ HasNode(graph, node_name)
    THEN [runs |-> rs, raised |-> Some("StopIteration"), called |-> FALSE,
          result |-> NoResult, log_entry |-> NoEntry]
    ELSE LET node_config == FirstNode(graph, node_name) IN
    IF ~ ToolRegistered(node_config.handler)
    THEN [runs |-> rs, raised |-> Some("ToolNotFoundError"), called |-> FALSE,
          result |-> NoResult, log_entry |-> NoEntry]
    ELSE LET state_before == get_state(rs, run_id)
             result == CallHandler(node_config.handler, state_before)
         IN
    IF result.kind = "raise"
    THEN [runs |-> rs, raised |-> Some("NodeExecutionError"), called |-> TRUE,
          result |-> result, log_entry |-> NoEntry]
    ELSE IF result.kind # "dict"
    THEN [runs |-> rs, raised |-> Some("TypeError"), called |-> TRUE,
          result |-> result, log_entry |-> NoEntry]
    ELSE LET rs1 == update_state(rs, run_id, result.value)
             state_after == get_state(rs1, run_id)
         IN [runs |-> rs1, raised |-> None, called |-> TRUE,
             result |-> result,
             log_entry |-> Some([node |-> node_name,
                                 state_before |-> state_before,
                                 state_after |-> state_after,
                                 status |-> "success"])]

\* an _execute_node whose except clause records the failure with status
\* "error" and returns, so that the traversal goes on
_execute_node_swallow(rs, run_id, node_name, graph) ==
    IF ~ HasNode(graph, node_name)
    THEN [runs |-> rs, raised |-> Some("StopIteration"), called |-> FALSE,
          result |-> NoResult, log_entry |-> NoEntry]
    ELSE LET node_config == FirstNode(graph, node_name) IN
    IF ~ ToolRegistered(node_config.handler)
    THEN [runs |-> rs, raised |-> Some("ToolNotFoundError"), called |-> FALSE,
          result |-> NoResult, log_entry |-> NoEntry]
    ELSE LET state_before == get_state(rs, run_id)
             result == CallHandler(node_config.handler, state_before)
             rs1 == IF result.kind = "dict"
                    THEN update_state(rs, run_id, result.value)
                    ELSE rs
             state_after == get_state(rs1, run_id)
         IN [runs |-> rs1, raised |-> None, called |-> TRUE,
             result |-> result,
             log_entry |-> Some([node |-> node_name,
                                 state_before |-> state_before,
                                 state_after |-> state_after,
                                 status |-> IF result.kind = "raise"
                                            THEN "error" ELSE "success"])]

\* WorkflowExecutor._execute_node on the run store rs: the store it leaves,
\* how it ended, the handler's return value and the ExecutionLog it returns
_execute_node(rs, run_id, node_name, graph) ==
    IF ~ HasNode(graph, node_name)
    THEN [runs |-> rs, raised |-> Some("StopIteration"), called |-> FALSE,
          result |-> NoResult, log_entry |-> NoEntry]
    ELSE LET node_config == FirstNode(graph, node_name) IN
    IF ~ ToolRegistered(node_config.handler)
    THEN [runs |-> rs, raised |-> Some("ToolNotFoundError"), called |-> FALSE,
          result |-> NoResult, log_entry |-> NoEntry]
    ELSE LET state_before == get_state(rs, run_id)
             result == CallHandler(node_config.handler, state_before)
         IN
    IF result.kind = "raise"
    THEN [runs |-> rs, raised |-> Some("NodeExecutionError"), called |-> TRUE,
          result |-> result, log_entry |-> NoEntry]
    ELSE LET rs1 == IF result.kind = "dict"
                    THEN update_state(rs, run_id, result.value)
                    ELSE rs
             state_after == get_state(rs1, run_id)
         IN [runs |-> rs1, raised |-> None, called |-> TRUE,
             result |-> result,
             log_entry |-> Some([node |-> node_name,
                                 state_before |-> state_before,
                                 state_after |-> state_after,
                                 status |-> "success"])]

\* an append that keeps one record per node, replacing the earlier one
AppendLogPerNode(execution_log, log_entry) ==
    Append(SelectSeq(execution_log, LAMBDA l : l.node # log_entry.node), log_entry)

\* execution_log.append(log_entry)
AppendLog(execution_log, log_entry) == Append(execution_log, log_entry)

\* loop_counts.get(current_node, 0)
CountOf(loop_counts, node) ==
    IF node \in DOMAIN loop_counts THEN loop_counts[node] ELSE 0

\* a loop check that counts the executions of every node and applies a
\* ceiling to the nodes without a policy too
LoopCheckCycleGuard(graph, current_node, loop_counts, current_state) ==
    LET counts == (current_node :> (CountOf(loop_counts, current_node) + 1))
                  @@ loop_counts
        ceiling == IF current_node \in DOMAIN graph.loops
                   THEN graph.loops[current_node].max_iterations
                   ELSE MaxIter
    IN  IF counts[current_node] > ceiling
        THEN [loop_counts |-> counts, outcome |-> "raise"]
        ELSE IF current_node \in DOMAIN graph.loops
                /\ _evaluate_condition(graph.loops[current_node].condition,
                                       current_state)
        THEN [loop_counts |-> counts, outcome |-> "continue"]
        ELSE [loop_counts |-> counts, outcome |-> "advance"]

\* lines 73-88 of execute: the counter after the node ran, and whether the
\* limit is exceeded ("raise"), the loop goes on ("continue") or the edges
\* are consulted ("advance")
\* a loop check without the ceiling: the counter is kept, never tested
LoopCheckNoCeiling(graph, current_node, loop_counts, current_state) ==
    IF current_node \in DOMAIN graph.loops
    THEN LET loop_config == graph.loops[current_node]
             counts == (current_node :> (CountOf(loop_counts, current_node) + 1))
                       @@ loop_counts
         IN  IF _evaluate_condition(loop_config.condition, current_state)
             THEN [loop_counts |-> counts, outcome |-> "continue"]
             ELSE [loop_counts |-> counts, outcome |-> "advance"]
    ELSE [loop_counts |-> loop_counts, outcome |-> "advance"]

\* a loop check that truncates: above the ceiling the loop is left over the
\* edges instead of failing the run
LoopCheckTruncate(graph, current_node, loop_counts, current_state) ==
    IF current_node \in DOMAIN graph.loops
    THEN LET loop_config == graph.loops[current_node]
             counts == (current_node :> (CountOf(loop_counts, current_node) + 1))
                       @@ loop_counts
         IN  IF counts[current_node] > loop_config.max_iterations
             THEN [loop_counts |-> counts, outcome |-> "advance"]
             ELSE IF _evaluate_condition(loop_config.condition, current_state)
             THEN [loop_counts |-> counts, outcome |-> "continue"]
             ELSE [loop_counts |-> counts, outcome |-> "advance"]
    ELSE [loop_counts |-> loop_counts, outcome |-> "advance"]

\* a loop check that lets a matching edge win: the policy sends the run back
\* into the node only when no edge leads out of it
LoopCheckEdgesFirst(graph, current_node, loop_counts, current_state) ==
    IF current_node \in DOMAIN graph.loops
    THEN LET loop_config == graph.loops[current_node]
             counts == (current_node :> (CountOf(loop_counts, current_node) + 1))
                       @@ loop_counts
         IN  IF counts[current_node] > loop_config.max_iterations
             THEN [loop_counts |-> counts, outcome |-> "raise"]
             ELSE IF /\ _evaluate_condition(loop_config.condition, current_state)
                     /\ _get_next_node(current_node, current_state, graph) = None
             THEN [loop_counts |-> counts, outcome |-> "continue"]
             ELSE [loop_counts |-> counts, outcome |-> "advance"]
    ELSE [loop_counts |-> loop_counts, outcome |-> "advance"]

\* a loop check that counts consecutive iterations only: leaving the node
\* over the edges resets its counter
LoopCheckReset(graph, current_node, loop_counts, current_state) ==
    IF current_node \in DOMAIN graph.loops
    THEN LET loop_config == graph.loops[current_node]
             counts == (current_node :> (CountOf(loop_counts, current_node) + 1))
                       @@ loop_counts
             reset == (current_node :> 0) @@ loop_counts
         IN  IF counts[current_node] > loop_config.max_iterations
             THEN [loop_counts |-> counts, outcome |-> "raise"]
             ELSE IF _evaluate_condition(loop_config.condition, current_state)
             THEN [loop_counts |-> counts, outcome |-> "continue"]
             ELSE [loop_counts |-> reset, outcome |-> "advance"]
    ELSE [loop_counts |-> loop_counts, outcome |-> "advance"]

LoopCheck(graph, current_node, loop_counts, current_state) ==
    IF current_node \in DOMAIN graph.loops
    THEN LET loop_config == graph.loops[current_node]
             counts == (current_node :> (CountOf(loop_counts, current_node) + 1))
                       @@ loop_counts
         IN  IF counts[current_node] > loop_config.max_iterations
             THEN [loop_counts |-> counts, outcome |-> "raise"]
             ELSE IF _evaluate_condition(loop_config.condition, current_state)
             THEN [loop_counts |-> counts, outcome |-> "continue"]
             ELSE [loop_counts |-> counts, outcome |-> "advance"]
    ELSE [loop_counts |-> loop_counts, outcome |-> "advance"]

NoResponse == [http |-> 0, detail |-> "", status |-> "", final_state |-> EmptyDict,
               execution_log |-> <<>>, error |-> None]

\* the ExecutionResult of execute (status, final_state, execution_log, error)
\* with what the route makes of it: a RunGraphResponse under 200, or for a
\* failed run an HTTPException 500 whose detail is an ExecutionError
RunResponse(status, final_state, execution_log, error) ==
    [http |-> IF status = "failed" THEN 500 ELSE 200,
     detail |-> IF status = "failed" THEN "ExecutionError" ELSE "",
     status |-> status, final_state |-> final_state,
     execution_log |-> execution_log, error |-> error]

\* the locals of execute once the run record exists (lines 58-60)
StartLocals(graph_id, graph) ==
    [pc |-> "exec",
     graph_id |-> graph_id,
     graph |-> graph,
     current_node |-> Some(graph.entry_node),
     execution_log |-> <<>>,
     loop_counts |-> [n \in {} |-> 0],
     result |-> NoResult,
     error |-> None,
     calls |-> [n \in {} |-> 0],
     response |-> NoResponse]

(* ------------------------------------------------------------------ inputs *)

Node(n, h) == [name |-> n, handler |-> h]
Edge(s, t, c) == [source |-> s, target |-> t, condition |-> c]
Cond(f, op, v) == [field |-> f, operator |-> op, value |-> v]
Loop(c, m) == [condition |-> c, max_iterations |-> m]
NoLoops == [n \in {} |-> Loop(Cond("x", "eq", NoneV), 1)]
Graph(nodes, edges, entry, loops) ==
    [name |-> "g", nodes |-> nodes, edges |-> edges, entry_node |-> entry,
     loops |-> loops]

\* x < MaxVal + 1 is true of every integer x the handlers produce
AlwaysTrue == Cond("x", "lt", IntV(MaxVal + 1))

\* the definitions submitted in the system runs: a chain, a branch, a loop that
\* exits into an unregistered handler, a loop guarded twice (policy and edge,
\* as in the code-review workflow), a self-edge without a policy, and two
\* definitions that break several invariants at once
Catalogue ==
    { Graph(<<Node("A", "set_a1"), Node("B", "set_a2b3")>>,
            <<Edge("A", "B", None)>>, "A", NoLoops),
      Graph(<<Node("A", "inc_x"), Node("B", "noop"), Node("C", "boom")>>,
            <<Edge("A", "B", Some(Cond("x", "lt", IntV(2)))),
              Edge("A", "C", Some(Cond("x", "lt", IntV(3)))),
              Edge("A", "A", None)>>, "A", NoLoops),
      Graph(<<Node("A", "inc_x"), Node("B", "nonexistent_handler")>>,
            <<Edge("A", "B", Some(Cond("x", "gte", IntV(2))))>>, "A",
            ("A" :> Loop(Cond("x", "lt", IntV(2)), MaxIter))),
      Graph(<<Node("A", "set_a1"), Node("B", "noop")>>,
            <<Edge("A", "B", None),
              Edge("B", "A", Some(Cond("x", "lt", IntV(2))))>>, "A",
            ("B" :> Loop(Cond("x", "lt", IntV(2)), MaxIter))),
      Graph(<<Node("A", "noop")>>, <<Edge("A", "A", None)>>, "A", NoLoops),
      Graph(<<Node("A", "noop")>>, <<Edge("A", "Z", None)>>, "Z",
            ("Z" :> Loop(AlwaysTrue, 1))),
      Graph(<<Node("A", "noop"), Node("A", "inc_x")>>, <<>>, "B", NoLoops) }

CatalogueStates ==
    { EmptyDict,
      [k \in {"x", "k"} |-> IF k = "x" THEN IntV(0) ELSE StrV(0)] }

\* the generated definitions: every edge list up to MaxEdges over WideEdges, in
\* every order, on each node list, entry node and loop mapping
WideEdges ==
    { Edge("A", "B", Some(Cond("x", "lt", IntV(2)))),
      Edge("A", "C", Some(Cond("x", "lt", IntV(3)))),
      Edge("A", "A", None),
      Edge("B", "A", None),
      Edge("Z", "Y", Some(Cond("x", "eq", NoneV))) }

WideEdgeLists ==
    UNION {[1..n -> WideEdges] : n \in 0..MaxEdges}

WideNodeLists ==
    { <<Node("A", "inc_x"), Node("B", "set_a1"), Node("C", "set_a2b3")>>,
      <<Node("A", "noop"), Node("B", "inc_x"), Node("C", "boom")>>,
      <<Node("A", "inc_x"), Node("B", "nonexistent_handler"), Node("C", "noop")>>,
      <<Node("A", "set_a1")>>,
      <<Node("A", "inc_x"), Node("A", "noop")>> }

WideLoops ==
    {NoLoops}
    \cup {("A" :> Loop(c, m)) :
            c \in {Cond("x", "lt", IntV(2)), AlwaysTrue}, m \in 1..MaxIter}
    \cup {("Z" :> Loop(AlwaysTrue, 1))}

\* a looping node whose only edge is an unconditional one to another node
LoopExitConfigs ==
    { Graph(<<Node("A", "inc_x"), Node("B", "set_a1")>>,
            <<Edge("A", "B", None)>>, "A",
            ("A" :> Loop(Cond("x", "lt", IntV(2)), m))) : m \in 1..MaxIter }

WideConfigs ==
    { Graph(nodes, edges, entry, loops) :
        nodes \in WideNodeLists, edges \in WideEdgeLists,
        entry \in {"A", "Z"}, loops \in WideLoops }
    \cup LoopExitConfigs

WideStates ==
    {EmptyDict}
    \cup { [k \in {"x", "k"} |-> IF k = "x" THEN v ELSE StrV(0)] :
             v \in {IntV(n) : n \in 0..(MaxVal - 1)} \cup {StrV(1)} }

\* the conditions and states the evaluator is called on directly: every
\* operator and one that is not supported, fields present and absent, values
\* of every type
EvalOps == ValidOps \cup {"contains"}
EvalValues == {IntV(n) : n \in 0..MaxVal} \cup {StrV(0), StrV(1), NoneV}
\* the states the evaluator is called on: those of the runs, one that holds
\* None under x, one that holds None under k and one that lacks k
EvalStates ==
    WideStates
    \cup { [k \in {"x", "k"} |-> IF k = "x" THEN NoneV ELSE StrV(0)],
           [k \in {"x", "k"} |-> IF k = "x" THEN IntV(1) ELSE NoneV],
           [k \in {"x"} |-> IntV(1)] }

EvalConds ==
    {Cond(f, op, v) : f \in {"x", "k", "missing"}, op \in EvalOps, v \in EvalValues}

\* the linear definitions: chains of 1..MaxChain nodes over every handler name,
\* registered or not, the edges listed from the entry on or from the end back
ChainNames == <<"A", "B", "C", "D", "E">>
ChainHandlers == Tools \cup {"nonexistent_handler"}

ChainNodes(hs) == [i \in DOMAIN hs |-> Node(ChainNames[i], hs[i])]
ChainEdges(k) ==
    [i \in 1..(k - 1) |-> Edge(ChainNames[i], ChainNames[i + 1], None)]
Reverse(s) == [i \in DOMAIN s |-> s[Len(s) + 1 - i]]

ChainConfigs ==
    UNION { { Graph(ChainNodes(hs), edges, ChainNames[1], NoLoops) :
                hs \in [1..k -> ChainHandlers],
                edges \in {ChainEdges(k), Reverse(ChainEdges(k))} } :
            k \in 1..MaxChain }

(* ----------------------------------------------------------------- actions *)

\* what a route answers, kept with the request body it answers (request is
\* the submitted definition of a create request, None otherwise)
ApiResponse(op, http, error, errors, id, request) ==
    [op |-> op, http |-> http, error |-> error, errors |-> errors, id |-> id,
     status |-> "", current_state |-> EmptyDict, request |-> request]

Init ==
    /\ graphs = [g \in {} |-> Graph(<<>>, <<>>, "", NoLoops)]
    /\ runs = [r \in {} |-> 0]
    /\ ex = [r \in {} |-> 0]
    /\ resp = ApiResponse("", 0, "", <<>>, "", None)
    /\ clock = 0
    /\ heap = [o \in ObjIds |-> 0]

\* a create_graph that stores the definition before it validates it
create_graph_store_first(gs, config) ==
    LET graph_id == NewGraphId(gs)
    IN  IF _validate_graph(config) # <<>>
        THEN [graphs |-> save_graph(gs, graph_id, config), raised |-> TRUE,
              graph_id |-> ""]
        ELSE [graphs |-> save_graph(gs, graph_id, config), raised |-> FALSE,
              graph_id |-> graph_id]

\* a create_graph that resolves every handler before it stores the definition
create_graph_eager(gs, config) ==
    IF _validate_graph(config) # <<>>
       \/ \E i \in DOMAIN config.nodes : ~ ToolRegistered(config.nodes[i].handler)
    THEN [graphs |-> gs, raised |-> TRUE, graph_id |-> ""]
    ELSE LET graph_id == NewGraphId(gs)
         IN  [graphs |-> save_graph(gs, graph_id, config), raised |-> FALSE,
              graph_id |-> graph_id]

\* GraphManager.create_graph: validate, then store under a new id
create_graph(gs, config) ==
    IF _validate_graph(config) # <<>>
    THEN [graphs |-> gs, raised |-> TRUE, graph_id |-> ""]
    ELSE LET graph_id == NewGraphId(gs)
         IN  [graphs |-> save_graph(gs, graph_id, config), raised |-> FALSE,
              graph_id |-> graph_id]

\* POST /graph/create: the request body is parsed into a GraphConfig (422 when
\* the model's validators raise), then create_graph (400 on ValidationError)
CreateGraph(config) ==
    /\ Cardinality(DOMAIN graphs) < Len(GraphIdSeq)
    /\ IF ModelErrors(config) # <<>>
       THEN /\ resp' = ApiResponse("create", 422, "RequestValidationError",
                                   [i \in DOMAIN ModelErrors(config) |->
                                       [kind |-> ModelErrors(config)[i], name |-> ""]],
                                   "", Some(config))
            /\ UNCHANGED graphs
       ELSE LET r == create_graph(graphs, config)
            IN  /\ graphs' = r.graphs
                /\ resp' = IF r.raised
                           THEN ApiResponse("create", 400, "ValidationError",
                                            _validate_graph(config), "",
                                            Some(config))
                           ELSE ApiResponse("create", 200, "", <<>>, r.graph_id,
                                            Some(config))
    /\ UNCHANGED <<runs, ex, clock, heap>>

\* an execute that creates the run record before it loads the graph
RunGraphInitFirst(graph_id, initial_state) ==
    /\ Cardinality(DOMAIN runs) < Len(RunIdSeq)
    /\ LET run_id == NewRunId(runs)
       IN  /\ runs' = initialize(runs, run_id, graph_id, initial_state, clock)
           /\ clock' = clock + 1
           /\ IF ~ has_graph(graphs, graph_id)
              THEN /\ resp' = ApiResponse("run", 404, "GraphNotFoundError", <<>>,
                                          graph_id, None)
                   /\ UNCHANGED ex
              ELSE /\ ex' = (run_id :> StartLocals(graph_id, graphs[graph_id])) @@ ex
                   /\ UNCHANGED resp
    /\ UNCHANGED <<graphs, heap>>

\* POST /graph/run up to the first node: lines 48-60 of execute; an unknown
\* graph_id raises GraphNotFoundError before any run record exists
RunGraph(graph_id, initial_state) ==
    /\ Cardinality(DOMAIN runs) < Len(RunIdSeq)
    /\ IF ~ has_graph(graphs, graph_id)
       THEN /\ resp' = ApiResponse("run", 404, "GraphNotFoundError", <<>>, graph_id, None)
            /\ UNCHANGED <<runs, ex, clock>>
       ELSE LET run_id == NewRunId(runs)
            IN  /\ runs' = initialize(runs, run_id, graph_id, initial_state, clock)
                /\ ex' = (run_id :> StartLocals(graph_id, graphs[graph_id])) @@ ex
                /\ clock' = clock + 1
                /\ UNCHANGED resp
    /\ UNCHANGED <<graphs, heap>>

\* lines 65-69: one pass of _execute_node and the append of its log entry
ExecuteNodeUpTo(r, steps) ==
    /\ r \in DOMAIN ex
    /\ ex[r].pc = "exec"
    /\ Len(ex[r].execution_log) < steps
    /\ LET e == ex[r]
           node == e.current_node[1]
           out == _execute_node(runs, r, node, e.graph)
           calls == IF out.called
                    THEN (node :> (CountOf(e.calls, node) + 1)) @@ e.calls
                    ELSE e.calls
       IN  /\ runs' = out.runs
           /\ ex' = [ex EXCEPT ![r] =
                       IF out.raised # None
                       THEN [e EXCEPT !.pc = "except", !.error = out.raised,
                                      !.result = out.result, !.calls = calls]
                       ELSE [e EXCEPT !.pc = "loop", !.result = out.result,
                                      !.calls = calls,
                                      !.execution_log = AppendLog(@, out.log_entry[1])]]
           /\ heap' = Mutate(heap, out.result.appended)
    /\ UNCHANGED <<graphs, resp, clock>>

ExecuteNode(r) == ExecuteNodeUpTo(r, MaxSteps)

\* a loop check whose counters live on the executor and are shared by every
\* run: a run counts on from the highest count written so far
LoopAndAdvanceSharedCounts(r) ==
    /\ r \in DOMAIN ex
    /\ ex[r].pc = "loop"
    /\ LET e == ex[r]
           node == e.current_node[1]
           Highest(n) == CHOOSE c \in {CountOf(ex[q].loop_counts, n) : q \in DOMAIN ex} :
                            \A q \in DOMAIN ex : CountOf(ex[q].loop_counts, n) <= c
           written == UNION {DOMAIN ex[q].loop_counts : q \in DOMAIN ex}
           shared == [n \in written |-> Highest(n)]
           chk == LoopCheck(e.graph, node, shared, get_state(runs, r))
           next == _get_next_node(node, get_state(runs, r), e.graph)
       IN  ex' = [ex EXCEPT ![r] =
                    CASE chk.outcome = "raise" ->
                           [e EXCEPT !.pc = "except", !.loop_counts = chk.loop_counts,
                                     !.error = Some("LoopLimitError")]
                      [] chk.outcome = "continue" ->
                           [e EXCEPT !.pc = "exec", !.loop_counts = chk.loop_counts]
                      [] chk.outcome = "advance" ->
                           [e EXCEPT !.pc = IF next = None THEN "complete" ELSE "exec",
                                     !.loop_counts = chk.loop_counts,
                                     !.current_node = next]]
    /\ UNCHANGED <<graphs, runs, resp, clock, heap>>

\* a loop check and an edge scan on the state the node was called with, as
\* if the conditions were read before the merge
LoopAndAdvanceStale(r) ==
    /\ r \in DOMAIN ex
    /\ ex[r].pc = "loop"
    /\ LET e == ex[r]
           node == e.current_node[1]
           stale == e.execution_log[Len(e.execution_log)].state_before
           chk == LoopCheck(e.graph, node, e.loop_counts, stale)
           next == _get_next_node(node, stale, e.graph)
       IN  ex' = [ex EXCEPT ![r] =
                    CASE chk.outcome = "raise" ->
                           [e EXCEPT !.pc = "except", !.loop_counts = chk.loop_counts,
                                     !.error = Some("LoopLimitError")]
                      [] chk.outcome = "continue" ->
                           [e EXCEPT !.pc = "exec", !.loop_counts = chk.loop_counts]
                      [] chk.outcome = "advance" ->
                           [e EXCEPT !.pc = IF next = None THEN "complete" ELSE "exec",
                                     !.loop_counts = chk.loop_counts,
                                     !.current_node = next]]
    /\ UNCHANGED <<graphs, runs, resp, clock, heap>>

\* lines 73-92: the loop policy of the node just executed, then the edges
LoopAndAdvance(r) ==
    /\ r \in DOMAIN ex
    /\ ex[r].pc = "loop"
    /\ LET e == ex[r]
           node == e.current_node[1]
           chk == LoopCheck(e.graph, node, e.loop_counts, get_state(runs, r))
           next == _get_next_node(node, get_state(runs, r), e.graph)
       IN  ex' = [ex EXCEPT ![r] =
                    CASE chk.outcome = "raise" ->
                           [e EXCEPT !.pc = "except", !.loop_counts = chk.loop_counts,
                                     !.error = Some("LoopLimitError")]
                      [] chk.outcome = "continue" ->
                           [e EXCEPT !.pc = "exec", !.loop_counts = chk.loop_counts]
                      [] chk.outcome = "advance" ->
                           [e EXCEPT !.pc = IF next = None THEN "complete" ELSE "exec",
                                     !.loop_counts = chk.loop_counts,
                                     !.current_node = next]]
    /\ UNCHANGED <<graphs, runs, resp, clock, heap>>

\* lines 94-104: the loop ended; complete_run and the result
CompleteRun(r) ==
    /\ r \in DOMAIN ex
    /\ ex[r].pc = "complete"
    /\ runs' = complete_run(runs, r, "completed", clock)
    /\ clock' = clock + 1
    /\ ex' = [ex EXCEPT ![r] =
                [@ EXCEPT !.pc = "done",
                          !.response = RunResponse("completed",
                                          runs'[r].current_state,
                                          ex[r].execution_log, None)]]
    /\ UNCHANGED <<graphs, resp, heap>>

\* a failure handling that rolls the run back to the state it started from
FailRunRollback(r) ==
    /\ r \in DOMAIN ex
    /\ ex[r].pc = "except"
    /\ LET started == IF ex[r].execution_log = <<>>
                      THEN get_state(runs, r)
                      ELSE ex[r].execution_log[1].state_before
           rolled == save_run(runs, r,
                        [load_run(runs, r) EXCEPT !.current_state = started])
       IN  /\ runs' = complete_run(rolled, r, "failed", clock)
           /\ ex' = [ex EXCEPT ![r] =
                       [@ EXCEPT !.pc = "done",
                                 !.response = RunResponse("failed", started,
                                                 ex[r].execution_log, ex[r].error)]]
    /\ clock' = clock + 1
    /\ UNCHANGED <<graphs, resp, heap>>

\* lines 106-118: an exception reached the handler of execute
FailRun(r) ==
    /\ r \in DOMAIN ex
    /\ ex[r].pc = "except"
    /\ runs' = complete_run(runs, r, "failed", clock)
    /\ clock' = clock + 1
    /\ ex' = [ex EXCEPT ![r] =
                [@ EXCEPT !.pc = "done",
                          !.response = RunResponse("failed",
                                          get_state(runs', r),
                                          ex[r].execution_log, ex[r].error)]]
    /\ UNCHANGED <<graphs, resp, heap>>

\* GET /graph/state/{run_id}
GetState(run_id) ==
    /\ resp' = IF has_run(runs, run_id)
               THEN LET run_data == get_run(runs, run_id)
                    IN  [op |-> "state", http |-> 200, error |-> "", errors |-> <<>>,
                         id |-> run_data.run_id, status |-> run_data.status,
                         current_state |-> run_data.current_state,
                         request |-> None]
               ELSE ApiResponse("state", 404, "RunNotFoundError", <<>>, run_id, None)
    /\ UNCHANGED <<graphs, runs, ex, clock, heap>>

GraphIds == {GraphIdSeq[i] : i \in DOMAIN GraphIdSeq}
RunIds == {RunIdSeq[i] : i \in DOMAIN RunIdSeq}

Next ==
    \/ \E config \in Catalogue : CreateGraph(config)
    \/ \E g \in GraphIds \cup {"invalid-id"}, s \in CatalogueStates : RunGraph(g, s)
    \/ \E r \in RunIds : ExecuteNode(r)
    \/ \E r \in RunIds : LoopAndAdvance(r)
    \/ \E r \in RunIds : CompleteRun(r)
    \/ \E r \in RunIds : FailRun(r)
    \/ \E r \in RunIds \cup {"invalid-run-id"} : GetState(r)

Spec == Init /\ [][Next]_vars

\* one create request out of the generated definitions, and one run of the
\* definition when it is accepted
CreateGraphWide ==
    /\ resp.op = ""
    /\ \E config \in WideConfigs : CreateGraph(config)

RunGraphWide ==
    /\ Cardinality(DOMAIN runs) < 1
    /\ \E g \in DOMAIN graphs, s \in WideStates : RunGraph(g, s)

NextWide ==
    \/ CreateGraphWide
    \/ RunGraphWide
    \/ \E r \in RunIds : ExecuteNode(r)
    \/ \E r \in RunIds : LoopAndAdvance(r)
    \/ \E r \in RunIds : CompleteRun(r)
    \/ \E r \in RunIds : FailRun(r)

SpecWide == Init /\ [][NextWide]_vars

\* one create request out of the linear definitions, and one run of it
CreateGraphChain ==
    /\ resp.op = ""
    /\ \E config \in ChainConfigs : CreateGraph(config)

NextChain ==
    \/ CreateGraphChain
    \/ RunGraphWide
    \/ \E r \in RunIds : ExecuteNode(r)
    \/ \E r \in RunIds : LoopAndAdvance(r)
    \/ \E r \in RunIds : CompleteRun(r)
    \/ \E r \in RunIds : FailRun(r)

SpecChain == Init /\ [][NextChain]_vars

\* a direct call of WorkflowExecutor._evaluate_condition; resp keeps the
\* arguments and the value returned
EvaluateCondition ==
    /\ resp.op \in {"", "evaluate"}
    /\ \E condition \in EvalConds, state \in EvalStates :
         resp' = [op |-> "evaluate", http |-> 0, error |-> "", errors |-> <<>>,
                  id |-> "", status |-> "", current_state |-> state,
                  request |-> Some(condition),
                  returned |-> _evaluate_condition(condition, state)]
    /\ UNCHANGED <<graphs, runs, ex, clock, heap>>

\* the evaluator called directly, or one definition created and run
NextEval ==
    \/ EvaluateCondition
    \/ CreateGraphWide
    \/ RunGraphWide
    \/ \E r \in RunIds : ExecuteNode(r)
    \/ \E r \in RunIds : LoopAndAdvance(r)
    \/ \E r \in RunIds : CompleteRun(r)
    \/ \E r \in RunIds : FailRun(r)

SpecEval == Init /\ [][NextEval]_vars

\* the highest ceiling under which a run over WideEdges needs no more than
\* MaxSteps node executions: the node with the policy executes at most
\* max_iterations + 1 times, with at most one other node in between
LiveIter == (MaxSteps - 1) \div 2

LiveLoops ==
    {NoLoops}
    \cup {("A" :> Loop(c, m)) :
            c \in {Cond("x", "lt", IntV(2)), AlwaysTrue}, m \in 1..LiveIter}

\* a cycle of two nodes over unconditional edges, with a policy on one of
\* them (a policy on the second node lets the first execute once more, so its
\* ceiling is one lower)
LiveCycleConfigs ==
    { Graph(<<Node("A", "inc_x"), Node("B", "noop")>>,
            <<Edge("A", "B", None), Edge("B", "A", None)>>, "A",
            ("A" :> Loop(Cond("x", "lt", IntV(2)), m))) : m \in 1..LiveIter }
    \cup
    { Graph(<<Node("A", "inc_x"), Node("B", "noop")>>,
            <<Edge("A", "B", None), Edge("B", "A", None)>>, "A",
            ("B" :> Loop(Cond("x", "lt", IntV(2)), m))) : m \in 1..(LiveIter - 1) }

\* definitions with and without a policy on the node their cycles pass through
LiveConfigs ==
    { Graph(nodes, edges, "A", loops) :
        nodes \in WideNodeLists, edges \in WideEdgeLists, loops \in LiveLoops }
    \cup LiveCycleConfigs

CreateGraphLive ==
    /\ resp.op = ""
    /\ \E config \in LiveConfigs : CreateGraph(config)

\* the steps of execute for run r, from its first node to its result
RunStep(r) ==
    ExecuteNode(r) \/ LoopAndAdvance(r) \/ CompleteRun(r) \/ FailRun(r)

NextLive ==
    \/ CreateGraphLive
    \/ RunGraphWide
    \/ \E r \in RunIds : ExecuteNode(r)
    \/ \E r \in RunIds : LoopAndAdvance(r)
    \/ \E r \in RunIds : CompleteRun(r)
    \/ \E r \in RunIds : FailRun(r)

\* execute is one synchronous call: once started it goes on to its next step
\* whenever it has one (every handler call returns)
SpecLive ==
    /\ Init
    /\ [][NextLive]_vars
    /\ \A r \in RunIds : WF_vars(RunStep(r))

\* create_code_review_workflow(threshold): four nodes in a chain, the edge
\* improve -> complexity and the loop policy of improve under one condition
create_code_review_workflow(threshold) ==
    [name |-> "code_review",
     nodes |-> <<Node("extract", "extract_functions"),
                 Node("complexity", "check_complexity"),
                 Node("issues", "detect_issues"),
                 Node("improve", "suggest_improvements")>>,
     edges |-> <<Edge("extract", "complexity", None),
                 Edge("complexity", "issues", None),
                 Edge("issues", "improve", None),
                 Edge("improve", "complexity",
                      Some(Cond("quality_score", "lt", threshold)))>>,
     entry_node |-> "extract",
     loops |-> ("improve" :> Loop(Cond("quality_score", "lt", threshold), 5))]

\* the thresholds the workflow is built with: the default, a lower one and 0
ReviewThresholds == {IntV(70), IntV(50), IntV(0)}

\* other definitions with a policy and an edge under one condition: the edge
\* leads back into the node, on to another node, or is declared twice
DualConfigs ==
    UNION { { Graph(<<Node("A", "inc_x"), Node("B", "set_a1")>>, edges, "A",
                    ("A" :> Loop(c, m))) :
                edges \in { <<Edge("A", "B", Some(c))>>,
                            <<Edge("A", "A", Some(c)), Edge("A", "B", None)>>,
                            <<Edge("A", "B", Some(c)), Edge("B", "A", None)>> },
                m \in 1..MaxIter } :
            c \in {Cond("x", "lt", IntV(2)), AlwaysTrue} }

\* the branching workflow of the demonstration: improve is reached over an
\* edge guarded by issue_count, which the source node issues writes
branching_test ==
    [name |-> "branching_test",
     nodes |-> <<Node("extract", "extract_functions"),
                 Node("complexity", "check_complexity"),
                 Node("issues", "detect_issues"),
                 Node("improve", "suggest_improvements")>>,
     edges |-> <<Edge("extract", "complexity", None),
                 Edge("complexity", "issues", None),
                 Edge("issues", "improve",
                      Some(Cond("issue_count", "gt", IntV(0))))>>,
     entry_node |-> "extract",
     loops |-> NoLoops]

ReviewConfigs ==
    {create_code_review_workflow(t) : t \in ReviewThresholds}
    \cup DualConfigs \cup {branching_test}

\* the initial states of the review runs: each source text, no code at all,
\* a code that is no text, and a quality_score supplied by the caller
ReviewStates ==
    { [k \in {"code"} |-> c] : c \in CodeSamples \cup {IntV(1), NoneV} }
    \cup { [k \in {"code", "quality_score"} |->
              IF k = "code" THEN c ELSE IntV(100)] : c \in CodeSamples }
    \cup WideStates

CreateGraphReview ==
    /\ resp.op = ""
    /\ \E config \in ReviewConfigs : CreateGraph(config)

RunGraphReview ==
    /\ Cardinality(DOMAIN runs) < 1
    /\ \E g \in DOMAIN graphs, s \in ReviewStates : RunGraph(g, s)

NextReview ==
    \/ CreateGraphReview
    \/ RunGraphReview
    \/ \E r \in RunIds : ExecuteNodeUpTo(r, ReviewSteps)
    \/ \E r \in RunIds : LoopAndAdvance(r)
    \/ \E r \in RunIds : CompleteRun(r)
    \/ \E r \in RunIds : FailRun(r)

SpecReview == Init /\ [][NextReview]_vars

\* execute statement by statement, as a reader of the run store on another
\* thread would see it: the handler call, the merge and the record of one node
\* are three steps

\* lines 131-149 of _execute_node: the node and its handler are looked up,
\* state_before is read and the handler is called on a copy of it
CallNode(r) ==
    /\ r \in DOMAIN ex
    /\ ex[r].pc = "exec"
    /\ Len(ex[r].execution_log) < MaxSteps
    /\ LET e == ex[r]
           node == e.current_node[1]
       IN  IF ~ HasNode(e.graph, node)
           THEN /\ ex' = [ex EXCEPT ![r] =
                           [e EXCEPT !.pc = "except",
                                     !.error = Some("StopIteration")]]
                /\ UNCHANGED heap
           ELSE IF ~ ToolRegistered(FirstNode(e.graph, node).handler)
           THEN /\ ex' = [ex EXCEPT ![r] =
                           [e EXCEPT !.pc = "except",
                                     !.error = Some("ToolNotFoundError")]]
                /\ UNCHANGED heap
           ELSE LET state_before == get_state(runs, r)
                    result == CallHandler(FirstNode(e.graph, node).handler,
                                          state_before)
                    calls == (node :> (CountOf(e.calls, node) + 1)) @@ e.calls
                    called == [e EXCEPT !.result = result, !.calls = calls]
                IN  /\ ex' = [ex EXCEPT ![r] =
                                IF result.kind = "raise"
                                THEN [called EXCEPT !.pc = "except",
                                         !.error = Some("NodeExecutionError")]
                                ELSE ("state_before" :> state_before)
                                     @@ [called EXCEPT !.pc = "merge"]]
                    /\ heap' = Mutate(heap, result.appended)
    /\ UNCHANGED <<graphs, runs, resp, clock>>

\* a merge that writes the returned keys into the stored state one by one
MergeResultKeyByKey(r) ==
    /\ r \in DOMAIN ex
    /\ ex[r].pc = "merge"
    /\ LET e == ex[r]
           state == get_state(runs, r)
           due == IF e.result.kind = "dict"
                  THEN {k \in DOMAIN e.result.value :
                          k \notin DOMAIN state \/ state[k] # e.result.value[k]}
                  ELSE {}
       IN  IF due = {}
           THEN /\ ex' = [ex EXCEPT ![r] = [e EXCEPT !.pc = "record"]]
                /\ UNCHANGED runs
           ELSE \E k \in due :
                  /\ runs' = update_state(runs, r,
                                [j \in {k} |-> e.result.value[j]])
                  /\ ex' = [ex EXCEPT ![r] =
                              [e EXCEPT !.pc = IF due = {k} THEN "record"
                                               ELSE "merge"]]
    /\ UNCHANGED <<graphs, resp, clock, heap>>

\* lines 155-156 of _execute_node: a returned dict is merged by update_state,
\* one dict.update call on the stored state
MergeResult(r) ==
    /\ r \in DOMAIN ex
    /\ ex[r].pc = "merge"
    /\ runs' = IF ex[r].result.kind = "dict"
               THEN update_state(runs, r, ex[r].result.value)
               ELSE runs
    /\ ex' = [ex EXCEPT ![r] = [@ EXCEPT !.pc = "record"]]
    /\ UNCHANGED <<graphs, resp, clock, heap>>

\* lines 160-169 of _execute_node and line 69 of execute: state_after is
\* read and the ExecutionLog is appended to the trace
RecordNode(r) ==
    /\ r \in DOMAIN ex
    /\ ex[r].pc = "record"
    /\ ex' = [ex EXCEPT ![r] =
                [@ EXCEPT !.pc = "loop",
                          !.execution_log =
                              AppendLog(@, [node |-> ex[r].current_node[1],
                                            state_before |-> ex[r].state_before,
                                            state_after |-> get_state(runs, r),
                                            status |-> "success"])]]
    /\ UNCHANGED <<graphs, runs, resp, clock, heap>>

CreateGraphMonitor ==
    /\ DOMAIN graphs = {}
    /\ \E config \in Catalogue : CreateGraph(config)

RunGraphMonitor ==
    /\ Cardinality(DOMAIN runs) < 1
    /\ \E g \in DOMAIN graphs, s \in CatalogueStates : RunGraph(g, s)

NextMonitor ==
    \/ CreateGraphMonitor
    \/ RunGraphMonitor
    \/ \E r \in RunIds : CallNode(r)
    \/ \E r \in RunIds : MergeResult(r)
    \/ \E r \in RunIds : RecordNode(r)
    \/ \E r \in RunIds : LoopAndAdvance(r)
    \/ \E r \in RunIds : CompleteRun(r)
    \/ \E r \in RunIds : FailRun(r)
    \/ \E r \in RunIds \cup {"invalid-run-id"} : GetState(r)

SpecMonitor == Init /\ [][NextMonitor]_vars

\* definitions whose handlers append to the list under "items" of the state
\* they are called with
AliasConfigs ==
    { Graph(<<Node("A", "push"), Node("B", "push_ret"), Node("C", "noop")>>,
            <<Edge("A", "B", None), Edge("B", "C", None)>>, "A", NoLoops),
      Graph(<<Node("A", "inc_x"), Node("B", "push_boom")>>,
            <<Edge("A", "B", None)>>, "A",
            ("A" :> Loop(Cond("x", "lt", IntV(1)), MaxIter))),
      Graph(<<Node("A", "push"), Node("B", "inc_x"), Node("C", "push")>>,
            <<Edge("A", "B", None), Edge("B", "C", None)>>, "A", NoLoops) }

\* the initial_state dicts of the caller: a list under "items", or none
AliasStates ==
    { [k \in {"items", "x"} |-> IF k = "items" THEN RefV(o) ELSE IntV(0)] :
        o \in ObjIds }
    \cup { [k \in {"x"} |-> IntV(0)] }

\* the value a state has when every list it refers to is read from heap h
Deep(state, h) ==
    [k \in DOMAIN state |->
        IF IsRef(state[k]) THEN <<"list", h[state[k][2]]>> ELSE state[k]]

CreateGraphAlias ==
    /\ resp.op = ""
    /\ \E config \in AliasConfigs : CreateGraph(config)

\* a direct call of WorkflowExecutor.execute with a dict the caller keeps
RunGraphAlias ==
    \E g \in DOMAIN graphs, s \in AliasStates : RunGraph(g, s)

\* the caller appends to a list it passed (or will pass) inside initial_state
CallerAppend(o) ==
    /\ heap[o] < MaxCallerAppends
    /\ heap' = [heap EXCEPT ![o] = @ + 1]
    /\ UNCHANGED <<graphs, runs, ex, resp, clock>>

NextAlias ==
    \/ CreateGraphAlias
    \/ RunGraphAlias
    \/ \E o \in ObjIds : CallerAppend(o)
    \/ \E r \in RunIds : ExecuteNode(r)
    \/ \E r \in RunIds : LoopAndAdvance(r)
    \/ \E r \in RunIds : CompleteRun(r)
    \/ \E r \in RunIds : FailRun(r)

SpecAlias == Init /\ [][NextAlias]_vars

(* ------------------------------------------------------------------ claims *)

\* an edge the engine may take from node on state
EdgeMatches(e, node, state) ==
    /\ e.source = node
    /\ (e.condition = None \/ _evaluate_condition(e.condition[1], state))

\* the target of the matching edge declared first; None when no edge matches
FirstMatchingTarget(edges, node, state) ==
    IF \E i \in DOMAIN edges : EdgeMatches(edges[i], node, state)
    THEN Some(edges[CHOOSE i \in DOMAIN edges :
                      /\ EdgeMatches(edges[i], node, state)
                      /\ \A j \in 1..(i - 1) : ~ EdgeMatches(edges[j], node, state)].target)
    ELSE None

\* the loop policy of the node just executed sends the run back into it
PolicyContinues(e, state) ==
    /\ e.current_node[1] \in DOMAIN e.graph.loops
    /\ _evaluate_condition(e.graph.loops[e.current_node[1]].condition, state)

\* run r has just executed a node and the step decides where it goes next
Advances(r) ==
    /\ r \in DOMAIN ex
    /\ ex[r].pc = "loop"
    /\ ex'[r].pc \in {"exec", "complete"}

\* C1: after a node has executed and its loop policy does not continue the
\* loop, the next node is the target of the first edge in declaration order
\* whose source is the node and whose condition is absent or true on the
\* current state (None, ending the run, when there is no such edge); a later
\* matching edge is never taken.
C1_EdgeSelection ==
    [][\A r \in RunIds :
        (Advances(r) /\ ~ PolicyContinues(ex[r], runs[r].current_state))
        => ex'[r].current_node =
             FirstMatchingTarget(ex[r].graph.edges, ex[r].current_node[1],
                                 runs[r].current_state)]_vars

\* a run went to the first of two matching edges that lead to different nodes
C1_Witness ==
    \E r \in DOMAIN ex :
        /\ ex[r].pc = "exec"
        /\ ex[r].execution_log # <<>>
        /\ LET last == ex[r].execution_log[Len(ex[r].execution_log)]
               edges == ex[r].graph.edges
           IN  /\ last.node \notin DOMAIN ex[r].graph.loops
               /\ runs[r].current_state = last.state_after
               /\ \E i, j \in DOMAIN edges :
                    /\ i < j
                    /\ EdgeMatches(edges[i], last.node, last.state_after)
                    /\ EdgeMatches(edges[j], last.node, last.state_after)
                    /\ edges[i].condition # None
                    /\ edges[i].target # edges[j].target
                    /\ \A k \in 1..(i - 1) :
                         ~ EdgeMatches(edges[k], last.node, last.state_after)
                    /\ ex[r].current_node = Some(edges[i].target)

\* the number of records of node n in a trace
RECURSIVE CountNode(_, _)
CountNode(log, n) ==
    IF log = <<>> THEN 0
    ELSE (IF Head(log).node = n THEN 1 ELSE 0) + CountNode(Tail(log), n)

\* the loop condition of node n was true after each of its executions in log
LoopAlwaysTrue(e, n) ==
    \A i \in DOMAIN e.execution_log :
        e.execution_log[i].node = n
        => _evaluate_condition(e.graph.loops[n].condition,
                               e.execution_log[i].state_after)

\* C2: a node with a loop policy of max_iterations N whose condition is true
\* after every execution fails the run with LoopLimitError after exactly N
\* executions: the returned trace holds exactly N records of that node.
C2_LoopLimitAfterN ==
    \A r \in DOMAIN ex :
        (/\ ex[r].pc = "done"
         /\ ex[r].error = Some("LoopLimitError")
         /\ LoopAlwaysTrue(ex[r], ex[r].current_node[1]))
        => CountNode(ex[r].response.execution_log, ex[r].current_node[1])
             = ex[r].graph.loops[ex[r].current_node[1]].max_iterations

NodeNames(config) == {config.nodes[i].name : i \in DOMAIN config.nodes}

\* the four structural invariants of a graph definition
EntryIsNode(config) == config.entry_node \in NodeNames(config)
EdgesAreNodes(config) ==
    \A i \in DOMAIN config.edges :
        config.edges[i].source \in NodeNames(config)
        /\ config.edges[i].target \in NodeNames(config)
LoopKeysAreNodes(config) == DOMAIN config.loops \subseteq NodeNames(config)
NamesUnique(config) ==
    \A i, j \in DOMAIN config.nodes :
        config.nodes[i].name = config.nodes[j].name => i = j

\* C3: every definition held in the graph store satisfies the four structural
\* invariants (entry node, edge endpoints and loop keys are node names, node
\* names are unique); a definition that violates one is never stored.
C3_StoredGraphsWellFormed ==
    \A g \in DOMAIN graphs :
        /\ EntryIsNode(graphs[g])
        /\ EdgesAreNodes(graphs[g])
        /\ LoopKeysAreNodes(graphs[g])
        /\ NamesUnique(graphs[g])

\* a definition with several edges and a loop policy was accepted
C3_Witness ==
    /\ resp.op = "create"
    /\ resp.http = 200
    /\ \E g \in DOMAIN graphs :
        /\ resp.id = g
        /\ Len(graphs[g].edges) >= 2
        /\ DOMAIN graphs[g].loops # {}

\* the number of entries of one kind in an errors list
CountKind(errors, kind) == Len(SelectSeq(errors, LAMBDA e : e.kind = kind))

\* C4: the error answering a rejected definition has one entry for every
\* violation: the entry node, each edge source and each edge target that is
\* not a node, each loop key that is not a node, and duplicate node names.
C4_AllViolationsReported ==
    (resp.op = "create" /\ resp.http # 200)
    => LET config == resp.request[1]
       IN  /\ (~ EntryIsNode(config)) => CountKind(resp.errors, "Entry node") = 1
           /\ CountKind(resp.errors, "Edge source")
                = Cardinality({i \in DOMAIN config.edges :
                                 config.edges[i].source \notin NodeNames(config)})
           /\ CountKind(resp.errors, "Edge target")
                = Cardinality({i \in DOMAIN config.edges :
                                 config.edges[i].target \notin NodeNames(config)})
           /\ CountKind(resp.errors, "Loop node")
                = Cardinality(DOMAIN config.loops \ NodeNames(config))
           /\ (~ NamesUnique(config))
                => CountKind(resp.errors, "Node names must be unique") = 1

\* C5: a rejected create_graph leaves the graph store and the run store as
\* they were: nothing of the definition is stored, no identifier is handed
\* out, no run record or run is created.
C5_RejectedCreateIsAtomic ==
    [][(resp' # resp /\ resp'.op = "create" /\ resp'.http # 200)
       => (graphs' = graphs /\ runs' = runs /\ ex' = ex /\ resp'.id = "")]_vars

\* a definition was rejected while the stores hold a graph and a run
C5_Witness ==
    /\ resp.op = "create"
    /\ resp.http = 400
    /\ Len(resp.errors) >= 2
    /\ DOMAIN graphs # {}
    /\ DOMAIN runs # {}

\* run r takes the step that executes its current node
Executes(r) ==
    /\ r \in DOMAIN ex
    /\ ex[r].pc = "exec"
    /\ ex'[r] # ex[r]

\* what the handler of r's current node returns on r's current state
HandlerOutcome(r) ==
    LET node_config == FirstNode(ex[r].graph, ex[r].current_node[1])
    IN  IF ToolRegistered(node_config.handler)
        THEN CallHandler(node_config.handler, runs[r].current_state)
        ELSE NoResult

C8_RecordsEqualCalls ==
    \A r \in DOMAIN ex :
        ex[r].pc = "done"
        => \A n \in NodeNames(ex[r].graph) :
             CountNode(ex[r].response.execution_log, n) = CountOf(ex[r].calls, n)

\* the call of n's handler that raised and failed the run, if there is one
RaisedCalls(e, n) ==
    IF e.error = Some("NodeExecutionError") /\ e.current_node = Some(n) THEN 1 ELSE 0

\* C8 amended: at every point of a run and after it, the number of records of
\* node n in the trace equals the number of times n's handler was run and
\* returned; the call that raised and failed the run has no record.
C8_RecordsEqualReturnedCalls ==
    \A r \in DOMAIN ex :
        \A n \in NodeNames(ex[r].graph) :
            /\ CountNode(ex[r].execution_log, n)
                 = CountOf(ex[r].calls, n) - RaisedCalls(ex[r], n)
            /\ ex[r].pc = "done"
               => ex[r].response.execution_log = ex[r].execution_log

\* a run that re-entered a node over an edge ended on a handler that raised
C8_Witness ==
    \E r \in DOMAIN ex :
        /\ ex[r].pc = "done"
        /\ ex[r].error = Some("NodeExecutionError")
        /\ \E n \in NodeNames(ex[r].graph) :
             CountNode(ex[r].response.execution_log, n) >= 2
        /\ CountOf(ex[r].calls, ex[r].current_node[1])
             = CountNode(ex[r].response.execution_log, ex[r].current_node[1]) + 1

Terminal == {"completed", "failed"}

\* C9: a run record is created with status running, changes status exactly
\* once, to completed or to failed, when execute ends, and never changes
\* status again; the record's status is the status execute returns.
C9_StatusLifecycle ==
    /\ [][\A r \in RunIds :
            /\ (r \notin DOMAIN runs /\ r \in DOMAIN runs')
               => runs'[r].status = "running"
            /\ (r \in DOMAIN runs)
               => /\ r \in DOMAIN runs'
                  /\ (runs'[r].status # runs[r].status)
                     => (runs[r].status = "running" /\ runs'[r].status \in Terminal)]_vars
    /\ [](\A r \in DOMAIN runs :
            /\ r \in DOMAIN ex
            /\ ex[r].pc # "done" => runs[r].status = "running"
            /\ ex[r].pc = "done"
               => (runs[r].status \in Terminal
                   /\ runs[r].status = ex[r].response.status))

\* one run has ended completed and another has ended failed
C9_Witness ==
    \E r1, r2 \in DOMAIN runs :
        /\ ex[r1].pc = "done" /\ runs[r1].status = "completed"
        /\ ex[r2].pc = "done" /\ runs[r2].status = "failed"

\* C10: GetRunState is a pure read: the call leaves the run store unchanged,
\* and a second call on a run that had ended at the first call returns the
\* same status and current_state, whatever other runs did in between.
C10_GetRunStateIsPure ==
    [][/\ (resp' # resp /\ resp'.op = "state")
          => (runs' = runs /\ graphs' = graphs /\ ex' = ex)
       /\ (/\ resp.op = "state" /\ resp.http = 200 /\ resp.status \in Terminal
           /\ resp'.op = "state" /\ resp'.id = resp.id)
          => (/\ resp'.http = 200
              /\ resp'.status = resp.status
              /\ resp'.current_state = resp.current_state)]_vars

\* an ended run was queried and another run has executed a node that changed
\* its own state
C10_Witness ==
    /\ resp.op = "state"
    /\ resp.http = 200
    /\ resp.status \in Terminal
    /\ resp.current_state # EmptyDict
    /\ \E r \in DOMAIN runs :
         /\ r # resp.id
         /\ ex[r].execution_log # <<>>
         /\ runs[r].current_state # resp.current_state
         /\ runs[resp.id].current_state = resp.current_state

\* C11: once execute has returned for a run, the run's record is in the store,
\* carries the status of the result and a current_state equal to the result's
\* final_state, and GetRunState on the run_id answers with exactly those; a
\* run that was started never lacks its record.
C11_EndedRunIsReadable ==
    /\ [](\A r \in DOMAIN ex :
            /\ has_run(runs, r)
            /\ ex[r].pc = "done"
               => /\ ex[r].response.status \in Terminal
                  /\ runs[r].status = ex[r].response.status
                  /\ runs[r].current_state = ex[r].response.final_state)
    /\ [][\A r \in RunIds :
            (/\ resp' # resp /\ resp'.op = "state" /\ resp'.id = r
             /\ r \in DOMAIN ex /\ ex[r].pc = "done")
            => /\ resp'.http = 200
               /\ resp'.status = ex[r].response.status
               /\ resp'.current_state = ex[r].response.final_state]_vars

\* a failed run that had merged an update was read back after execute returned
C11_Witness ==
    /\ resp.op = "state"
    /\ resp.http = 200
    /\ resp.status = "failed"
    /\ resp.id \in DOMAIN ex
    /\ ex[resp.id].pc = "done"
    /\ ex[resp.id].execution_log # <<>>
    /\ resp.current_state = ex[resp.id].response.final_state
    /\ resp.current_state
         # ex[resp.id].execution_log[1].state_before

\* the orders in which the nodes of a linear graph follow each other: every
\* node once, the entry node first, and the edges exactly the unconditional
\* edges from each node to the next
ChainOrders(graph) ==
    LET k == Len(graph.nodes)
    IN  { p \in [1..k -> 1..k] :
            /\ \A i, j \in 1..k : p[i] = p[j] => i = j
            /\ NamesUnique(graph)
            /\ DOMAIN graph.loops = {}
            /\ graph.entry_node = graph.nodes[p[1]].name
            /\ Len(graph.edges) = k - 1
            /\ \A i \in 1..(k - 1) :
                 \E j \in DOMAIN graph.edges :
                    graph.edges[j] = Edge(graph.nodes[p[i]].name,
                                          graph.nodes[p[i + 1]].name, None) }

\* a handler of the run raised or was not registered
HandlerFailed(e) ==
    e.error \in {Some("NodeExecutionError"), Some("ToolNotFoundError")}

\* the registered handlers that raise on no state
NonRaising ==
    {h \in Tools : \A s \in WideStates : CallHandler(h, s).kind # "raise"}

\* C12: on a chain of k nodes joined by unconditional edges, without loop
\* policies, entered at its first node, the trace is at every moment a prefix
\* of the chain order; a run none of whose handlers failed ends completed with
\* exactly k records in chain order, and with handlers that never raise the
\* run cannot fail.
C12_LinearTrace ==
    \A r \in DOMAIN ex :
        \A p \in ChainOrders(ex[r].graph) :
            LET e == ex[r]
                k == Len(e.graph.nodes)
            IN  /\ Len(e.execution_log) <= k
                /\ \A i \in DOMAIN e.execution_log :
                     e.execution_log[i].node = e.graph.nodes[p[i]].name
                /\ (e.pc = "done" /\ ~ HandlerFailed(e))
                   => /\ e.response.status = "completed"
                      /\ runs[r].status = "completed"
                      /\ Len(e.response.execution_log) = k
                      /\ e.response.execution_log = e.execution_log
                /\ (\A i \in 1..k : e.graph.nodes[i].handler \in NonRaising)
                   => e.error = None

\* a chain of three nodes whose edges are listed last edge first has completed
C12_Witness ==
    \E r \in DOMAIN ex :
        /\ ChainOrders(ex[r].graph) # {}
        /\ Len(ex[r].graph.nodes) >= 3
        /\ ex[r].graph.edges[1].source # ex[r].graph.entry_node
        /\ ex[r].pc = "done"
        /\ ex[r].response.status = "completed"
        /\ Len(ex[r].response.execution_log) = Len(ex[r].graph.nodes)
        /\ \E i \in DOMAIN ex[r].graph.nodes :
             ex[r].graph.nodes[i].handler = "inc_x"

\* node n has no loop policy and the first edge that leaves it is an
\* unconditional edge back to n
SelfCycle(graph, n) ==
    /\ n \notin DOMAIN graph.loops
    /\ \E i \in DOMAIN graph.edges :
         /\ graph.edges[i] = Edge(n, n, None)
         /\ \A j \in 1..(i - 1) : graph.edges[j].source # n

\* C13: a node without a loop policy is under no iteration ceiling: the step
\* after its execution never raises and counts nothing. A run entered at a
\* node whose first edge is an unconditional edge to itself, with a handler
\* that never raises, stays running on that node: it is never completed and
\* never failed, and every record of its trace is of that node.
C13_NoCycleGuard ==
    /\ [][\A r \in RunIds :
            (/\ r \in DOMAIN ex /\ ex[r].pc = "loop" /\ ex'[r] # ex[r]
             /\ ex[r].current_node[1] \notin DOMAIN ex[r].graph.loops)
            => /\ ex'[r].pc \in {"exec", "complete"}
               /\ ex'[r].loop_counts = ex[r].loop_counts
               /\ ex'[r].error = None]_vars
    /\ [](\A r \in DOMAIN ex :
            LET e == ex[r]
                n == e.graph.entry_node
            IN  (/\ SelfCycle(e.graph, n)
                 /\ FirstNode(e.graph, n).handler \in NonRaising)
                => /\ runs[r].status = "running"
                   /\ e.pc \in {"exec", "loop"}
                   /\ e.current_node = Some(n)
                   /\ e.error = None
                   /\ \A i \in DOMAIN e.execution_log :
                        e.execution_log[i].node = n)

\* a run on a self-edge has executed its node as often as a run is followed
C13_Witness ==
    \E r \in DOMAIN ex :
        /\ SelfCycle(ex[r].graph, ex[r].graph.entry_node)
        /\ FirstNode(ex[r].graph, ex[r].graph.entry_node).handler \in NonRaising
        /\ Len(ex[r].execution_log) = MaxSteps
        /\ CountNode(ex[r].execution_log, ex[r].graph.entry_node) = MaxSteps
        /\ ex[r].pc = "exec"
        /\ runs[r].status = "running"

OrderingOps == {"gt", "lt", "gte", "lte"}

\* the operands cannot be ordered: their types differ, or one of them is None
Unordered(a, b) == a[1] # b[1] \/ a = NoneV \/ b = NoneV

\* an ordering condition whose operands cannot be ordered on state
Mismatch(c, state) ==
    c.operator \in OrderingOps /\ Unordered(DictGet(state, c.field), c.value)

\* the edges without those that leave node under a mismatched condition
WithoutMismatched(edges, node, state) ==
    SelectSeq(edges, LAMBDA e :
        ~ (e.source = node /\ e.condition # None /\ Mismatch(e.condition[1], state)))

\* C14: the evaluator answers every condition on every state with a boolean;
\* an ordering operator on operands of incompatible types answers false, an
\* unsupported operator answers false. In a run such a condition does not
\* fail the run: the step after a node raises only for an exceeded loop
\* limit, and the run goes where the edges lead once the mismatched ones are
\* left out.
C14_EvaluatorTotal ==
    /\ [](resp.op = "evaluate"
           => LET c == resp.request[1]
              IN  /\ resp.returned \in BOOLEAN
                  /\ Mismatch(c, resp.current_state) => resp.returned = FALSE
                  /\ c.operator \notin ValidOps => resp.returned = FALSE)
    /\ [][\A r \in RunIds :
            (r \in DOMAIN ex /\ ex[r].pc = "loop" /\ ex'[r] # ex[r])
            => LET e == ex[r]
                   node == e.current_node[1]
                   state == runs[r].current_state
               IN  /\ ex'[r].pc = "except"
                      => /\ node \in DOMAIN e.graph.loops
                         /\ CountOf(e.loop_counts, node) + 1
                              > e.graph.loops[node].max_iterations
                         /\ ex'[r].error = Some("LoopLimitError")
                   /\ (ex'[r].pc # "except" /\ ~ PolicyContinues(e, state))
                      => ex'[r].current_node
                           = FirstMatchingTarget(
                                WithoutMismatched(e.graph.edges, node, state),
                                node, state)
                   /\ (node \in DOMAIN e.graph.loops
                       /\ Mismatch(e.graph.loops[node].condition, state))
                      => ~ (ex'[r].pc = "exec" /\ ex'[r].current_node = e.current_node
                            /\ FirstMatchingTarget(e.graph.edges, node, state)
                                 # e.current_node)]_vars

\* gt was evaluated on a string state value against a numeric threshold
C14_Witness ==
    /\ resp.op = "evaluate"
    /\ resp.request[1].operator = "gt"
    /\ resp.request[1].field = "x"
    /\ IsInt(resp.request[1].value)
    /\ "x" \in DOMAIN resp.current_state
    /\ IsStr(resp.current_state["x"])
    /\ resp.returned = FALSE

\* C15: the execution of a node whose handler raises appends nothing, merges
\* nothing and takes the run to its failure handling; from then on no handler
\* of the run is called again (neither the same node nor a successor), the
\* trace stays as it is, and the only step left to the run marks it failed.
C15_RaiseStopsTraversal ==
    /\ [][\A r \in RunIds :
            /\ (Executes(r) /\ HandlerOutcome(r).kind = "raise")
               => /\ ex'[r].pc = "except"
                  /\ ex'[r].error = Some("NodeExecutionError")
                  /\ ex'[r].execution_log = ex[r].execution_log
                  /\ ex'[r].calls[ex[r].current_node[1]]
                       = CountOf(ex[r].calls, ex[r].current_node[1]) + 1
                  /\ runs' = runs
            /\ (r \in DOMAIN ex /\ ex[r].error = Some("NodeExecutionError"))
               => /\ ex'[r].calls = ex[r].calls
                  /\ ex'[r].execution_log = ex[r].execution_log
                  /\ ex'[r].current_node = ex[r].current_node
                  /\ ex'[r].pc \in {"except", "done"}
                  /\ ex'[r] # ex[r]
                     => /\ ex'[r].pc = "done"
                        /\ runs'[r].status = "failed"
                        /\ runs'[r].current_state = runs[r].current_state]_vars
    /\ [](\A r \in DOMAIN ex :
            (ex[r].error = Some("NodeExecutionError") /\ ex[r].pc = "done")
            => /\ runs[r].status = "failed"
               /\ ex[r].response.status = "failed")

\* a run failed on a raising handler at a node that has an edge it could
\* have followed
C15_Witness ==
    \E r \in DOMAIN ex :
        /\ ex[r].pc = "done"
        /\ ex[r].error = Some("NodeExecutionError")
        /\ runs[r].status = "failed"
        /\ FirstMatchingTarget(ex[r].graph.edges, ex[r].current_node[1],
                               runs[r].current_state) # None
        /\ CountOf(ex[r].calls, ex[r].current_node[1]) = 1

\* the handler named by r's current node is not in the registry
HandlerMissing(r) ==
    ~ ToolRegistered(FirstNode(ex[r].graph, ex[r].current_node[1]).handler)

\* C16: a definition that satisfies the structural invariants is accepted
\* whatever handler names its nodes carry. ToolNotFoundError arises exactly
\* when a run comes to execute a node whose handler is not registered: that
\* execution calls nothing, merges nothing and appends nothing, and the run
\* ends failed with the records and the state updates of the nodes executed
\* before it.
C16_LazyHandlerResolution ==
    /\ [](resp.op = "create"
           => LET config == resp.request[1]
              IN  (EntryIsNode(config) /\ EdgesAreNodes(config)
                   /\ LoopKeysAreNodes(config) /\ NamesUnique(config))
                  => (resp.http = 200 /\ graphs[resp.id] = config))
    /\ [][\A r \in RunIds :
            Executes(r)
            => /\ HandlerMissing(r)
                  => /\ ex'[r].pc = "except"
                     /\ ex'[r].error = Some("ToolNotFoundError")
                     /\ ex'[r].calls = ex[r].calls
                     /\ ex'[r].execution_log = ex[r].execution_log
                     /\ runs' = runs
               /\ ex'[r].error = Some("ToolNotFoundError") => HandlerMissing(r)]_vars
    /\ [](\A r \in DOMAIN ex :
            (ex[r].pc = "done" /\ ex[r].error = Some("ToolNotFoundError"))
            => LET log == ex[r].response.execution_log
               IN  /\ runs[r].status = "failed"
                   /\ ex[r].response.status = "failed"
                   /\ log = ex[r].execution_log
                   /\ \A i \in DOMAIN log :
                        ToolRegistered(FirstNode(ex[r].graph, log[i].node).handler)
                   /\ log # <<>>
                      => /\ ex[r].response.final_state = log[Len(log)].state_after
                         /\ runs[r].current_state = log[Len(log)].state_after)

\* an accepted definition names an unregistered handler; a run reached that
\* node after another node had changed the state, and ended failed
C16_Witness ==
    \E r \in DOMAIN ex :
        /\ resp.op = "create"
        /\ resp.http = 200
        /\ ex[r].pc = "done"
        /\ ex[r].error = Some("ToolNotFoundError")
        /\ runs[r].status = "failed"
        /\ ex[r].response.execution_log # <<>>
        /\ ex[r].response.final_state
             # ex[r].response.execution_log[1].state_before
        /\ ex[r].response.execution_log[1].node # ex[r].current_node[1]

\* the step of r that a failure ends: the node execution that raised, or the
\* loop check that exceeded its limit
Fails(r) ==
    /\ r \in DOMAIN ex
    /\ ex[r].pc \in {"exec", "loop"}
    /\ ex'[r].pc = "except"

C18_FailureInSuccessEnvelope ==
    /\ \A r \in DOMAIN ex :
         (ex[r].pc = "done" /\ ex[r].response.status = "failed")
         => /\ ex[r].response.http = 200
            /\ ex[r].response.detail = ""
            /\ ex[r].response.error # None
    /\ (resp.op = "run" /\ resp.http # 200) => resp.error = "GraphNotFoundError"

\* C19: a request that fails on an identifier lookup changes nothing. RunGraph
\* with an unknown graph_id answers GraphNotFound and leaves the graph store,
\* the run store and every run as they were: no run record is created and no
\* handler is called. GetRunState with an unknown run_id answers RunNotFound
\* and creates or modifies no record. Every run record belongs to a stored
\* graph.
C19_LookupFailureChangesNothing ==
    /\ [][(resp' # resp /\ resp'.http = 404)
           => /\ graphs' = graphs
              /\ runs' = runs
              /\ ex' = ex
              /\ clock' = clock
              /\ resp'.op \in {"run", "state"}
              /\ resp'.op = "run"
                 => (~ has_graph(graphs, resp'.id)
                     /\ resp'.error = "GraphNotFoundError")
              /\ resp'.op = "state"
                 => (~ has_run(runs, resp'.id)
                     /\ resp'.error = "RunNotFoundError")]_vars
    /\ [](\A r \in DOMAIN runs :
            /\ has_graph(graphs, runs[r].graph_id)
            /\ r \in DOMAIN ex)

\* an unknown graph_id was refused while a run of a stored graph is under way
C19_Witness ==
    /\ resp.op = "run"
    /\ resp.http = 404
    /\ resp.error = "GraphNotFoundError"
    /\ ~ has_graph(graphs, resp.id)
    /\ \E r \in DOMAIN ex :
         /\ ex[r].pc = "exec"
         /\ ex[r].execution_log # <<>>
    /\ Cardinality(DOMAIN runs) = 1

\* the run store as it would be if r were the only run
Own(r) == (r :> runs[r])

\* the step of r is the step r takes in a store that holds no other run
AloneStep(r) ==
    LET e == ex[r]
        node == e.current_node[1]
    IN  CASE e.pc = "exec" ->
               LET out == _execute_node(Own(r), r, node, e.graph)
               IN  /\ runs'[r] = out.runs[r]
                   /\ ex'[r].pc = IF out.raised = None THEN "loop" ELSE "except"
                   /\ ex'[r].error = out.raised
                   /\ ex'[r].execution_log
                        = IF out.raised = None
                          THEN Append(e.execution_log, out.log_entry[1])
                          ELSE e.execution_log
                   /\ ex'[r].loop_counts = e.loop_counts
                   /\ ex'[r].current_node = e.current_node
          [] e.pc = "loop" ->
               LET chk == LoopCheck(e.graph, node, e.loop_counts,
                                    get_state(Own(r), r))
                   next == _get_next_node(node, get_state(Own(r), r), e.graph)
               IN  /\ runs'[r] = runs[r]
                   /\ ex'[r].loop_counts = chk.loop_counts
                   /\ ex'[r].execution_log = e.execution_log
                   /\ ex'[r].pc = CASE chk.outcome = "raise" -> "except"
                                    [] chk.outcome = "continue" -> "exec"
                                    [] chk.outcome = "advance" ->
                                         IF next = None THEN "complete" ELSE "exec"
                   /\ ex'[r].current_node
                        = IF chk.outcome = "advance" THEN next ELSE e.current_node
          [] e.pc \in {"complete", "except"} ->
               LET status == IF e.pc = "complete" THEN "completed" ELSE "failed"
               IN  /\ runs'[r] = complete_run(Own(r), r, status, clock)[r]
                   /\ ex'[r].pc = "done"
                   /\ ex'[r].response
                        = RunResponse(status, runs[r].current_state,
                                      e.execution_log, e.error)
          [] e.pc = "done" -> FALSE

\* C20: runs with different run_ids do not interfere, however their steps
\* interleave. A step changes the record, the locals, the trace and the
\* loop counters of at most one run and leaves those of every other run as
\* they were; and what the step does to its own run is what it would do if
\* the store held that run alone, so each run's status, current_state and
\* trace are those of the run executed alone.
C20_RunsIndependent ==
    [][\A r \in RunIds :
        /\ (r \in DOMAIN ex /\ (ex'[r] # ex[r] \/ runs'[r] # runs[r]))
           => /\ AloneStep(r)
              /\ \A q \in DOMAIN ex \ {r} :
                   ex'[q] = ex[q] /\ runs'[q] = runs[q]
        /\ (r \notin DOMAIN ex /\ r \in DOMAIN ex')
           => /\ runs'[r].current_state \in CatalogueStates
              /\ ex'[r].graph = graphs[runs'[r].graph_id]
              /\ \A q \in DOMAIN ex : ex'[q] = ex[q] /\ runs'[q] = runs[q]]_vars

\* two runs are under way at once, each has executed nodes, their states
\* differ and one of them is counting the iterations of a loop
C20_Witness ==
    \E r1, r2 \in DOMAIN ex :
        /\ r1 # r2
        /\ ex[r1].pc \in {"exec", "loop"}
        /\ ex[r2].pc \in {"exec", "loop"}
        /\ Len(ex[r1].execution_log) >= 2
        /\ ex[r2].execution_log # <<>>
        /\ runs[r1].current_state # runs[r2].current_state
        /\ DOMAIN ex[r1].loop_counts # {}
        /\ runs[r1].status = "running"
        /\ runs[r2].status = "running"

\* the trace records of run r with every list read from heap h
DeepLog(execution_log, h) ==
    [i \in DOMAIN execution_log |->
        [execution_log[i] EXCEPT !.state_before = Deep(@, h),
                                 !.state_after = Deep(@, h)]]

\* C21: the object passed as initial_state is never aliased into the run: a
\* node execution of the run leaves every list of that object as it was, and
\* an append by the caller to one of its lists leaves the value of the run's
\* current_state as it was. (The lists of current_state are those of the
\* initial_state: no handler here creates or drops one.)
C21_InitialStateNotAliased ==
    /\ [][\A r \in RunIds :
            ExecuteNode(r) =>
                \A o \in ItemsOf(runs[r].current_state) : heap'[o] = heap[o]]_vars
    /\ [][\A o \in ObjIds :
            CallerAppend(o) =>
                \A r \in DOMAIN runs :
                    Deep(runs'[r].current_state, heap')
                        = Deep(runs[r].current_state, heap)]_vars

\* C22: the trace is append-only: every step leaves the trace of a run as it
\* was or extends it by one record at the end, and a node execution of the
\* run leaves the state_before/state_after values of the records already
\* appended as they were.
C22_TraceAppendOnly ==
    /\ [][\A r \in DOMAIN ex :
            \/ ex'[r].execution_log = ex[r].execution_log
            \/ /\ Len(ex'[r].execution_log) = Len(ex[r].execution_log) + 1
               /\ SubSeq(ex'[r].execution_log, 1, Len(ex[r].execution_log))
                    = ex[r].execution_log]_vars
    /\ [][\A r \in RunIds :
            ExecuteNode(r) =>
                SubSeq(DeepLog(ex'[r].execution_log, heap'), 1,
                       Len(ex[r].execution_log))
                    = DeepLog(ex[r].execution_log, heap)]_vars

\* C23: a handler changes the run's state only through the mapping it
\* returns: a node execution whose handler returns no mapping (None, or a
\* raise) leaves the value of current_state and of every trace record as it
\* was, and the record it appends has state_after equal to state_before as
\* it was when the handler was called.
C23_OnlyReturnedMappingChangesState ==
    [][\A r \in RunIds :
        (ExecuteNode(r) /\ ex'[r].result.kind \in {"other", "raise"}) =>
            /\ Deep(runs'[r].current_state, heap')
                 = Deep(runs[r].current_state, heap)
            /\ SubSeq(DeepLog(ex'[r].execution_log, heap'), 1,
                      Len(ex[r].execution_log))
                 = DeepLog(ex[r].execution_log, heap)
            /\ \A i \in DOMAIN ex'[r].execution_log \ DOMAIN ex[r].execution_log :
                 LET rec == DeepLog(ex'[r].execution_log, heap')[i]
                 IN  /\ rec.state_before = Deep(runs[r].current_state, heap)
                     /\ rec.state_after = rec.state_before]_vars

\* C24: graph definitions are read-only once accepted. Every step (a create
\* of another definition, a step of a run, a state query) leaves every stored
\* definition in the store and as it was; the store changes only by an
\* accepted create, which adds the submitted definition under an identifier
\* that was not in the store before.
C24_GraphsReadOnly ==
    [][/\ \A g \in DOMAIN graphs :
            g \in DOMAIN graphs' /\ graphs'[g] = graphs[g]
       /\ graphs' # graphs =>
            /\ resp'.op = "create"
            /\ resp'.http = 200
            /\ resp'.id \notin DOMAIN graphs
            /\ DOMAIN graphs' = DOMAIN graphs \cup {resp'.id}
            /\ graphs'[resp'.id] = resp'.request[1]]_vars

\* two definitions are stored, a run of one has ended and its state was read
C24_Witness ==
    /\ Cardinality(DOMAIN graphs) = 2
    /\ \E g, h \in DOMAIN graphs : graphs[g] # graphs[h]
    /\ \E r \in DOMAIN ex : ex[r].pc = "done" /\ ex[r].execution_log # <<>>
    /\ resp.op = "state"
    /\ resp.http = 200

\* the initial_state a run was started with: the state_before of its first
\* record, or its current_state while no node has executed
InitialStateOf(r) ==
    IF ex[r].execution_log # <<>>
    THEN ex[r].execution_log[1].state_before
    ELSE runs[r].current_state

\* two runs of equal definitions from equal initial states
SameInput(r, q) ==
    /\ ex[r].graph = ex[q].graph
    /\ InitialStateOf(r) = InitialStateOf(q)

\* C25: execution is deterministic. Two runs of the same definition from
\* equal initial states agree on every record both have appended (node,
\* state_before, state_after), and once both have ended they have the same
\* status, final_state, trace and error.
C25_Deterministic ==
    \A r, q \in DOMAIN ex :
        SameInput(r, q) =>
            /\ \A i \in DOMAIN ex[r].execution_log \cap DOMAIN ex[q].execution_log :
                 ex[r].execution_log[i] = ex[q].execution_log[i]
            /\ (ex[r].pc = "done" /\ ex[q].pc = "done") =>
                 /\ ex[r].response.status = ex[q].response.status
                 /\ ex[r].response.final_state = ex[q].response.final_state
                 /\ ex[r].response.execution_log = ex[q].response.execution_log
                 /\ ex[r].response.error = ex[q].response.error
                 /\ runs[r].status = runs[q].status
                 /\ runs[r].current_state = runs[q].current_state

\* two runs of one looping definition from one initial state have both ended,
\* after several node executions each
C25_Witness ==
    \E r, q \in DOMAIN ex :
        /\ r # q
        /\ SameInput(r, q)
        /\ ex[r].pc = "done" /\ ex[q].pc = "done"
        /\ Len(ex[r].execution_log) >= 2
        /\ ex[r].graph.loops # NoLoops

\* the counter of the node run r has just executed, as the loop check leaves it
CounterAfter(e) == CountOf(e.loop_counts, e.current_node[1]) + 1

\* the counter of the node just executed is within its policy's limit
WithinLimit(e) ==
    /\ e.current_node[1] \in DOMAIN e.graph.loops
    /\ CounterAfter(e) <= e.graph.loops[e.current_node[1]].max_iterations

\* C26: loop policy takes precedence over edges. When a node with a policy
\* has just executed, its counter is within the limit and the policy's
\* condition is true on the current state, the run goes on with that same
\* node, whatever edges leave it; and when a run that has just executed a node
\* with a policy follows the edges (to the first matching target, or to the
\* end for want of one), the policy's condition is false on the current state.
C26_PolicyBeforeEdges ==
    [][\A r \in RunIds :
        (r \in DOMAIN ex /\ ex[r].pc = "loop" /\ ex'[r] # ex[r]) =>
            LET e == ex[r]
                state == runs[r].current_state
            IN  /\ (WithinLimit(e) /\ PolicyContinues(e, state)) =>
                     /\ ex'[r].pc = "exec"
                     /\ ex'[r].current_node = e.current_node
                     /\ ex'[r].loop_counts[e.current_node[1]] = CounterAfter(e)
                /\ (e.current_node[1] \in DOMAIN e.graph.loops
                    /\ ~ PolicyContinues(e, state)
                    /\ WithinLimit(e)) =>
                     /\ ex'[r].pc \in {"exec", "complete"}
                     /\ ex'[r].current_node
                          = FirstMatchingTarget(e.graph.edges, e.current_node[1], state)
                /\ (e.current_node[1] \in DOMAIN e.graph.loops
                    /\ ex'[r].pc \in {"exec", "complete"}
                    /\ ex'[r].current_node # e.current_node) =>
                     ~ PolicyContinues(e, state)]_vars

\* a looping node with an unconditional edge to another node has executed
\* twice in a row, the policy's condition being true after the first time
C26_Witness ==
    \E r \in DOMAIN ex :
        LET log == ex[r].execution_log
            g == ex[r].graph
        IN  /\ Len(log) >= 2
            /\ log[1].node = log[2].node
            /\ log[1].node \in DOMAIN g.loops
            /\ _evaluate_condition(g.loops[log[1].node].condition, log[1].state_after)
            /\ \E i \in DOMAIN g.edges :
                 /\ g.edges[i].source = log[1].node
                 /\ g.edges[i].condition = None
                 /\ g.edges[i].target # log[1].node
            /\ \A i \in DOMAIN g.edges : g.edges[i].target # log[1].node

\* the records of node n in a trace, the last one left out
EarlierRecords(log, n) ==
    LET of_n == SelectSeq(log, LAMBDA l : l.node = n)
    IN  {of_n[i] : i \in 1..(Len(of_n) - 1)}

\* C27: a run fails with LoopLimitError at a node only if the node's loop
\* condition was true on the state after each of its earlier executions in
\* that run (the ceiling was reached without the exit condition becoming
\* true).
C27_LimitOnlyWithoutExit ==
    \A r \in DOMAIN ex :
        ex[r].error = Some("LoopLimitError") =>
            LET n == ex[r].current_node[1]
            IN  /\ n \in DOMAIN ex[r].graph.loops
                /\ \A rec \in EarlierRecords(ex[r].execution_log, n) :
                     _evaluate_condition(ex[r].graph.loops[n].condition,
                                         rec.state_after)

\* C28: a run ends completed only when nothing can advance it. When a run is
\* about to be marked completed or has been, its trace is not empty, no edge
\* whose source is the node executed last has an absent condition or a
\* condition true on the final state, and if that node has a loop policy the
\* policy's condition is false on the final state.
C28_CompletedOnlyWhenStuck ==
    \A r \in DOMAIN ex :
        (ex[r].pc = "complete" \/ runs[r].status = "completed") =>
            LET log == ex[r].execution_log
                last == log[Len(log)].node
                final_state == runs[r].current_state
                g == ex[r].graph
            IN  /\ log # <<>>
                /\ \A i \in DOMAIN g.edges : ~ EdgeMatches(g.edges[i], last, final_state)
                /\ last \in DOMAIN g.loops =>
                     ~ _evaluate_condition(g.loops[last].condition, final_state)
                /\ ex[r].pc = "done" =>
                     /\ ex[r].response.status = "completed"
                     /\ ex[r].response.final_state = final_state
                     /\ ex[r].response.execution_log = log

\* a run completed at a node that has a loop policy and a conditional edge
\* leaving it, after the node was executed more than once
C28_Witness ==
    \E r \in DOMAIN ex :
        LET log == ex[r].execution_log
            g == ex[r].graph
        IN  /\ ex[r].pc = "done"
            /\ runs[r].status = "completed"
            /\ Len(log) >= 2
            /\ log[Len(log)].node \in DOMAIN g.loops
            /\ \E i \in DOMAIN g.edges :
                 /\ g.edges[i].source = log[Len(log)].node
                 /\ g.edges[i].target # log[Len(log)].node
                 /\ g.edges[i].condition # None

\* the pairs (a, b) with a path of k edges or fewer from a to b that enters
\* no node with a loop policy on its way (a and b included)
RECURSIVE FreePaths(_, _)
FreePaths(g, k) ==
    LET free == NodeNames(g) \ DOMAIN g.loops
        E == {<<g.edges[i].source, g.edges[i].target>> : i \in DOMAIN g.edges}
               \cap (free \X free)
    IN  IF k <= 1 THEN E
        ELSE LET P == FreePaths(g, k - 1)
             IN  P \cup {<<pe[1][1], pe[2][2]>> :
                           pe \in {qf \in P \X E : qf[1][2] = qf[2][1]}}

\* every cycle of g, self-edges included, passes through a node with a policy
EveryCycleGuarded(g) ==
    \A n \in NodeNames(g) : <<n, n>> \notin FreePaths(g, Len(g.nodes))

\* run r stands before a node execution the step bound of the model forbids
AtStepBound(r) ==
    /\ ex[r].pc = "exec"
    /\ Len(ex[r].execution_log) >= MaxSteps

\* run r has ended, completed or failed
Ended(r) ==
    /\ r \in DOMAIN ex
    /\ ex[r].pc = "done"
    /\ runs[r].status \in {"completed", "failed"}
    /\ ex[r].response.status = runs[r].status

\* C29: termination under the loop ceiling. Every run on a definition in
\* which each cycle, self-edges included, passes through a node with a loop
\* policy eventually ends as completed or failed, whatever the state holds
\* (integers, strings, missing fields), given that every handler call returns;
\* and such a run never needs more node executions than the model allows.
C29_GuardedRunsTerminate ==
    /\ \A r \in RunIds :
         (r \in DOMAIN ex /\ EveryCycleGuarded(ex[r].graph)) ~> Ended(r)
    /\ [](\A r \in DOMAIN ex : EveryCycleGuarded(ex[r].graph) => ~ AtStepBound(r))

\* a run over a cycle of two nodes, guarded by the policy of one of them, has
\* failed at the ceiling after going round the cycle
C29_Witness ==
    \E r \in DOMAIN ex :
        /\ Ended(r)
        /\ EveryCycleGuarded(ex[r].graph)
        /\ ex[r].error = Some("LoopLimitError")
        /\ \E i, j \in DOMAIN ex[r].graph.edges :
             /\ ex[r].graph.edges[i].source = ex[r].graph.edges[j].target
             /\ ex[r].graph.edges[j].source = ex[r].graph.edges[i].target
             /\ ex[r].graph.edges[i].source # ex[r].graph.edges[i].target
        /\ \E k \in DOMAIN ex[r].execution_log :
             ex[r].execution_log[k].node # ex[r].current_node[1]
        /\ Len(ex[r].execution_log) >= 4

\* state with None stored under field
WithNull(state, field) ==
    [k \in DOMAIN state \cup {field} |-> IF k = field THEN NoneV ELSE state[k]]

\* the loop check or the edge scan after the node of e reads a condition
\* whose field is absent from state
ConsultsMissing(e, state) ==
    LET node == e.current_node[1]
    IN  \/ /\ node \in DOMAIN e.graph.loops
           /\ e.graph.loops[node].condition.field \notin DOMAIN state
        \/ \E i \in DOMAIN e.graph.edges :
             /\ e.graph.edges[i].source = node
             /\ e.graph.edges[i].condition # None
             /\ e.graph.edges[i].condition[1].field \notin DOMAIN state

\* C30: missing fields are not errors. A condition whose field is absent from
\* the state is evaluated to a boolean as if the field held None: eq is true
\* only against a None comparison value (and is true against it), ne is true
\* against every value that is not None, the ordering operators against a
\* number are false, and the result is the one the same state with None
\* stored under the field gives. A run step that reads such a condition fails
\* the run only by the loop ceiling.
C30_MissingFieldIsNull ==
    /\ [](resp.op = "evaluate" =>
            LET c == resp.request[1]
                state == resp.current_state
            IN  c.field \notin DOMAIN state =>
                  /\ resp.returned \in BOOLEAN
                  /\ c.operator = "eq" => (resp.returned <=> c.value = NoneV)
                  /\ (c.operator = "ne" /\ c.value # NoneV) => resp.returned
                  /\ (c.operator \in OrderingOps /\ IsInt(c.value)) => ~ resp.returned
                  /\ resp.returned = _evaluate_condition(c, WithNull(state, c.field)))
    /\ [][\A r \in RunIds :
            (/\ r \in DOMAIN ex
             /\ ex[r].pc = "loop"
             /\ ex'[r] # ex[r]
             /\ ConsultsMissing(ex[r], runs[r].current_state)
             /\ ex'[r].pc = "except")
            => /\ ex'[r].error = Some("LoopLimitError")
               /\ ~ WithinLimit(ex[r])]_vars

\* ne was evaluated on a state that lacks the field and holds other keys,
\* against a number, and answered true
C30_Witness ==
    /\ resp.op = "evaluate"
    /\ resp.request[1].field \notin DOMAIN resp.current_state
    /\ DOMAIN resp.current_state # {}
    /\ resp.request[1].operator = "ne"
    /\ IsInt(resp.request[1].value)
    /\ resp.returned = TRUE

\* g has an edge a -> b, and every edge a -> b is guarded by the condition of
\* the loop policy of a
OnlyDualEdges(g, a, b) ==
    /\ a \in DOMAIN g.loops
    /\ \E i \in DOMAIN g.edges : g.edges[i].source = a /\ g.edges[i].target = b
    /\ \A i \in DOMAIN g.edges :
         (g.edges[i].source = a /\ g.edges[i].target = b)
            => g.edges[i].condition = Some(g.loops[a].condition)

\* no record of a trace follows another over an edge that is guarded by the
\* loop condition of its source
DualEdgesDead(e) ==
    \A i \in 1..(Len(e.execution_log) - 1) :
        LET a == e.execution_log[i].node
            b == e.execution_log[i + 1].node
        IN  ~ (a # b /\ OnlyDualEdges(e.graph, a, b))

IsReview(g) == \E t \in ReviewThresholds : g = create_code_review_workflow(t)

\* the nodes of the code-review workflow ahead of the looping node
ReviewPrefix == {"extract", "complexity", "issues"}

\* the original wording of C31: the dual edge is never taken, and in every
\* ended run of the code-review workflow extract, complexity and issues have
\* each executed exactly once
C31_PrefixExactlyOnce ==
    \A r \in DOMAIN ex :
        /\ DualEdgesDead(ex[r])
        /\ (IsReview(ex[r].graph) /\ ex[r].pc = "done") =>
             \A n \in ReviewPrefix : CountOf(ex[r].calls, n) = 1

\* C31: an edge guarded by the condition of its source's loop policy is dead:
\* no run takes it. In the code-review workflow extract, complexity and
\* issues are each called at most once per run and have at most one record;
\* each has executed exactly once in every ended run that reached improve,
\* and every run whose code is a text (or absent) reaches improve. A run
\* whose code is no text fails in extract, before complexity and issues.
C31_DualEdgeDead ==
    \A r \in DOMAIN ex :
        /\ DualEdgesDead(ex[r])
        /\ IsReview(ex[r].graph) =>
             /\ \A n \in ReviewPrefix :
                  /\ CountOf(ex[r].calls, n) <= 1
                  /\ CountNode(ex[r].execution_log, n) <= CountOf(ex[r].calls, n)
             /\ CountOf(ex[r].calls, "improve") >= 1 =>
                  \A n \in ReviewPrefix :
                      /\ CountOf(ex[r].calls, n) = 1
                      /\ CountNode(ex[r].execution_log, n) = 1
             /\ (ex[r].pc = "done" /\ CodeOf(InitialStateOf(r)) \in CodeSamples) =>
                  CountOf(ex[r].calls, "improve") >= 1
             /\ (ex[r].pc = "done" /\ CodeOf(InitialStateOf(r)) \notin CodeSamples) =>
                  /\ ex[r].error = Some("NodeExecutionError")
                  /\ CountOf(ex[r].calls, "extract") = 1
                  /\ CountOf(ex[r].calls, "complexity") = 0

\* a run of the code-review workflow has failed at the ceiling of improve,
\* its quality_score below the threshold after every pass
C31_Witness ==
    \E r \in DOMAIN ex :
        /\ IsReview(ex[r].graph)
        /\ ex[r].pc = "done"
        /\ ex[r].error = Some("LoopLimitError")
        /\ CountOf(ex[r].calls, "improve") = 6
        /\ Len(ex[r].execution_log) = 9
        /\ _evaluate_condition(ex[r].graph.loops["improve"].condition,
                               runs[r].current_state)

\* C32: conditions see the state after the merge. The loop check and the
\* edge scan happen only after the node has executed and its record was
\* appended; the state they read is that record's state_after, which holds
\* the returned update merged over state_before; a true policy within the
\* limit re-enters the node and otherwise the first edge matching on
\* state_after is taken. So a node with a policy has executed before its
\* condition is first read, whatever the initial state.
C32_ConditionsSeeMergedState ==
    /\ [](\A r \in DOMAIN ex :
            ex[r].pc = "loop" =>
               LET log == ex[r].execution_log
                   last == log[Len(log)]
               IN  /\ log # <<>>
                   /\ last.node = ex[r].current_node[1]
                   /\ runs[r].current_state = last.state_after
                   /\ ex[r].result.kind = "dict" =>
                        last.state_after
                          = DictUpdate(last.state_before, ex[r].result.value)
                   /\ CountOf(ex[r].loop_counts, last.node)
                        < CountNode(log, last.node))
    /\ [][\A r \in RunIds :
            (r \in DOMAIN ex /\ ex[r].pc = "loop" /\ ex'[r] # ex[r]) =>
               LET e == ex[r]
                   log == e.execution_log
                   after == log[Len(log)].state_after
               IN  IF WithinLimit(e) /\ PolicyContinues(e, after)
                   THEN ex'[r].pc = "exec" /\ ex'[r].current_node = e.current_node
                   ELSE ex'[r].pc # "except" =>
                          ex'[r].current_node
                            = FirstMatchingTarget(e.graph.edges, e.current_node[1],
                                                  after)]_vars

\* a run went over an edge whose condition reads a field its source node
\* wrote: the condition is true on the record's state_after and false on its
\* state_before
C32_Witness ==
    \E r \in DOMAIN ex :
        \E i \in 1..(Len(ex[r].execution_log) - 1) :
            LET a == ex[r].execution_log[i]
                b == ex[r].execution_log[i + 1]
                edges == ex[r].graph.edges
            IN  /\ a.node # b.node
                /\ \E j \in DOMAIN edges :
                     /\ edges[j].source = a.node
                     /\ edges[j].target = b.node
                     /\ edges[j].condition # None
                     /\ edges[j].condition[1].field \in DOMAIN a.state_after
                     /\ edges[j].condition[1].field \notin DOMAIN a.state_before
                     /\ _evaluate_condition(edges[j].condition[1], a.state_after)
                     /\ ~ _evaluate_condition(edges[j].condition[1], a.state_before)
                /\ \A j \in DOMAIN edges :
                     edges[j].source = a.node => edges[j].target = b.node

\* C33: finalization stamps the record exactly once. A run record has a
\* completion timestamp if and only if its status is completed or failed
\* (and is running otherwise); once the timestamp is set, no step changes the
\* timestamp, the status or the current_state of the record.
C33_FinalizedOnce ==
    /\ [](\A r \in DOMAIN runs :
            /\ runs[r].status \in {"running", "completed", "failed"}
            /\ (runs[r].completed_at # None)
                 <=> (runs[r].status \in {"completed", "failed"}))
    /\ [][\A r \in DOMAIN runs :
            runs[r].completed_at # None =>
                /\ runs'[r].completed_at = runs[r].completed_at
                /\ runs'[r].status = runs[r].status
                /\ runs'[r].current_state = runs[r].current_state]_vars

\* a run completed and, later, another run failed; the state of the first was
\* read after both had ended
C33_Witness ==
    \E r, q \in DOMAIN runs :
        /\ runs[r].status = "completed"
        /\ runs[q].status = "failed"
        /\ runs[r].completed_at # None
        /\ runs[q].completed_at # None
        /\ runs[r].completed_at[1] < runs[q].completed_at[1]
        /\ runs[r].current_state # runs[q].current_state
        /\ resp.op = "state"
        /\ resp.id = r

\* C34: the run record accumulates the trace. At every point of a run and
\* after it ends, the execution_log of the stored run record is the list of
\* the records of the nodes executed so far, in execution order, and equals
\* the trace execute returns once the run has ended.
C34_RecordHoldsTrace ==
    \A r \in DOMAIN ex :
        /\ runs[r].execution_log = ex[r].execution_log
        /\ ex[r].pc = "done" =>
             runs[r].execution_log = ex[r].response.execution_log

\* record b follows record a by the loop policy of a's node
ByPolicy(g, a, b) ==
    /\ b.node = a.node
    /\ a.node \in DOMAIN g.loops
    /\ _evaluate_condition(g.loops[a.node].condition, a.state_after)

\* record b follows record a over the first edge matching on a's state_after
ByEdge(g, a, b) ==
    FirstMatchingTarget(g.edges, a.node, a.state_after) = Some(b.node)

\* C35: the trace is a path of the graph. In every run with a non-empty
\* trace the first record's node is entry_node; every recorded node is a node
\* of the graph; and of two consecutive records (a, b) either b's node is a's
\* node, which has a loop policy whose condition is true on a's state_after,
\* or b's node is the target of the first edge of a's node that matches on
\* a's state_after.
C35_TraceIsPath ==
    \A r \in DOMAIN ex :
        LET log == ex[r].execution_log
            g == ex[r].graph
        IN  /\ log # <<>> => log[1].node = g.entry_node
            /\ \A i \in DOMAIN log : log[i].node \in NodeNames(g)
            /\ \A i \in 1..(Len(log) - 1) :
                 ByPolicy(g, log[i], log[i + 1]) \/ ByEdge(g, log[i], log[i + 1])

\* a trace holds a loop continuation that no edge explains and a move over a
\* conditional edge that is not the first edge of its source
C35_Witness ==
    \E r \in DOMAIN ex :
        LET log == ex[r].execution_log
            g == ex[r].graph
        IN  /\ \E i \in 1..(Len(log) - 1) :
                 ByPolicy(g, log[i], log[i + 1]) /\ ~ ByEdge(g, log[i], log[i + 1])
            /\ \E i \in 1..(Len(log) - 1) :
                 /\ ~ ByPolicy(g, log[i], log[i + 1])
                 /\ log[i + 1].node # log[i].node
                 /\ \E j, k \in DOMAIN g.edges :
                      /\ j < k
                      /\ g.edges[j].source = log[i].node
                      /\ g.edges[k].source = log[i].node
                      /\ g.edges[j].target # log[i + 1].node
                      /\ g.edges[k].target = log[i + 1].node

\* the records of a run chain, the stored state is the last state_after, and
\* the result of an ended run carries that state
ChainedTrace(r) ==
    LET log == ex[r].execution_log
        last == IF log = <<>> THEN runs[r].current_state
                ELSE log[Len(log)].state_after
    IN  /\ \A i \in 1..(Len(log) - 1) : log[i].state_after = log[i + 1].state_before
        /\ runs[r].current_state = last
        /\ ex[r].pc = "done" => ex[r].response.final_state = last

\* a step keeps the initial state until the first record, whose state_before
\* is that state
StartsFromInitial ==
    /\ \A g \in GraphIds, s \in CatalogueStates :
         (RunGraph(g, s) /\ has_graph(graphs, g)) =>
             /\ runs'[NewRunId(runs)].current_state = s
             /\ ex'[NewRunId(runs)].execution_log = <<>>
    /\ \A r \in DOMAIN ex :
         /\ ex'[r].execution_log = <<>> =>
                runs'[r].current_state = runs[r].current_state
         /\ (ex[r].execution_log = <<>> /\ ex'[r].execution_log # <<>>) =>
                ex'[r].execution_log[1].state_before = runs[r].current_state

CheckDue(e, n) ==
    IF e.pc = "loop" /\ e.current_node = Some(n) THEN 1 ELSE 0

\* C37: loop counters are per run and per node and are never reset. In every
\* run, a node with a loop policy is executed at most max_iterations + 1
\* times (records and handler calls alike), however it was reached, and its
\* counter equals the number of its executions whose loop check is done,
\* whether the condition was true or false after them.
C37_CountersNeverReset ==
    \A r \in DOMAIN ex :
        \A n \in DOMAIN ex[r].graph.loops :
            LET e == ex[r]
                limit == e.graph.loops[n].max_iterations
            IN  /\ CountNode(e.execution_log, n) <= limit + 1
                /\ CountOf(e.calls, n) <= limit + 1
                /\ CountOf(e.loop_counts, n) = CountNode(e.execution_log, n) - CheckDue(e, n)

\* a run failed on the limit of a node after max_iterations + 1 executions,
\* one of them reached over an edge from another node after an execution
\* that left the loop condition false
C37_Witness ==
    \E r \in DOMAIN ex :
        \E n \in DOMAIN ex[r].graph.loops :
            LET e == ex[r]
                log == e.execution_log
            IN  /\ e.pc = "done"
                /\ e.error = Some("LoopLimitError")
                /\ CountNode(log, n) = e.graph.loops[n].max_iterations + 1
                /\ \E i, j \in DOMAIN log :
                     /\ i < j
                     /\ log[i].node = n
                     /\ ~ _evaluate_condition(e.graph.loops[n].condition,
                                              log[i].state_after)
                     /\ log[j - 1].node # n
                     /\ log[j].node = n

\* every record of the trace, and of the result once the run has ended, has
\* status "success"
OnlySuccessRecorded(r) ==
    /\ \A i \in DOMAIN ex[r].execution_log :
         ex[r].execution_log[i].status = "success"
    /\ ex[r].pc = "done" =>
         \A i \in DOMAIN ex[r].response.execution_log :
             ex[r].response.execution_log[i].status = "success"

\* C38: every record that appears in a trace has outcome success, in failed
\* runs too: a node execution that fails appends no record, and the result
\* of a failed run holds the records of the executions before the failure.
C38_OnlySuccessRecorded ==
    /\ [](\A r \in DOMAIN ex : OnlySuccessRecorded(r))
    /\ [][\A r \in DOMAIN ex :
            /\ (ex[r].pc = "exec" /\ ex'[r].pc = "except") =>
                   ex'[r].execution_log = ex[r].execution_log
            /\ (ex[r].pc = "except" /\ ex'[r].pc = "done") =>
                   /\ ex'[r].response.status = "failed"
                   /\ ex'[r].response.execution_log = ex[r].execution_log]_vars

\* a run failed in a handler after another node had executed: its result
\* holds the record of that node and none of the failing one
C38_Witness ==
    \E r \in DOMAIN ex :
        /\ ex[r].pc = "done"
        /\ ex[r].response.status = "failed"
        /\ ex[r].error = Some("NodeExecutionError")
        /\ ex[r].response.execution_log # <<>>
        /\ ex[r].current_node # None
        /\ CountNode(ex[r].response.execution_log, ex[r].current_node[1]) = 0
        /\ CountOf(ex[r].calls, ex[r].current_node[1]) = 1

\* the states of run q a reader may see: the state it started from, the
\* state_after of every record, and the state a node that has executed left
\* while its record is still to be appended
StartedFrom(q) ==
    IF ex[q].execution_log # <<>> THEN ex[q].execution_log[1].state_before
    ELSE IF ex[q].pc \in {"merge", "record"} THEN ex[q].state_before
    ELSE runs[q].current_state

VisibleStates(q) ==
    {StartedFrom(q)}
    \cup {ex[q].execution_log[i].state_after : i \in DOMAIN ex[q].execution_log}
    \cup (IF ex[q].pc = "record"
          THEN {IF ex[q].result.kind = "dict"
                THEN DictUpdate(ex[q].state_before, ex[q].result.value)
                ELSE ex[q].state_before}
          ELSE {})

\* C39: monitoring a run in progress. A state query that falls between two
\* statements of a run that has not ended answers 200 with status running and
\* a current_state that is the initial state or the state a node that has
\* executed left behind, never a part of a handler's update; and the query
\* changes neither the run record nor the locals of the run.
C39_MonitoringSeesWholeStates ==
    [][\A q \in DOMAIN ex :
        (ex[q].pc # "done" /\ GetState(q)) =>
            /\ resp'.http = 200
            /\ resp'.status = "running"
            /\ resp'.current_state \in VisibleStates(q)
            /\ runs' = runs
            /\ ex' = ex]_vars

\* a query answered between the merge of a two-key update and its record:
\* it shows both keys
C39_Witness ==
    /\ resp.op = "state"
    /\ resp.http = 200
    /\ resp.id \in DOMAIN ex
    /\ LET e == ex[resp.id]
       IN  /\ e.pc = "record"
           /\ e.execution_log # <<>>
           /\ e.result.kind = "dict"
           /\ Cardinality(DOMAIN e.result.value) = 2
           /\ resp.status = "running"
           /\ resp.current_state = DictUpdate(e.state_before, e.result.value)
           /\ resp.current_state # e.state_before


====
